---- MODULE Spec2Model ----
(***************************************************************************)
(* Model of the peer-to-peer overlay manager (OverlayImpl), its children   *)
(* (Timer, ConnectAttempt, Peer Session) and the inbound upgrade handoff.  *)
(* The PeerFinder, the Peer Session, the Stoppable base class and the HTTP *)
(* helpers live outside the modelled sources; they are modelled from their *)
(* contracts.                                                              *)
(***************************************************************************)
EXTENDS Integers, Sequences, FiniteSets, TLC

\* ------------------------------------------------------------------ bounds

\* Number of ids next_id_ may hand out (inbound handoffs plus outbound attempts).
MaxId == 3
\* The same, where every request of the model is admitted (SpecHandoff).
MaxHandoffId == 2
\* PeerFinder configuration: inbound slots that may be active at once.
MaxInbound == 1
\* PeerFinder configuration: outbound slots that may be open at once.
MaxOutbound == 1
\* PeerFinder configuration: open inbound slots allowed per remote address.
IpLimit == 2
\* Buffers a body writer hands over at most, in the model.
MaxPieces == 2
\* Operations parked in the invokables at most, in the model.
MaxParked == 3

\* ------------------------------------------------------------- value sets

Endpoints == {"e1", "e2"}
SelfEndpoint == "self"
Keys == {"k1", "k2"}
OwnKey == "kself"
NoKey == "nokey"
NoSlot == 0
TimerChild == <<"timer", 0>>
Ids == 1..MaxId

VARIABLES
    next_id_,      \* OverlayImpl::next_id_
    work_,         \* OverlayImpl::work_ engaged
    list_,         \* OverlayImpl::list_: the children, <<kind, id>>
    m_peers,       \* OverlayImpl::m_peers: set of <<slot, peer id>>
    ids_,          \* OverlayImpl::ids_: short ids of the active peers
    slots,         \* PeerFinder: sequence of slot records, indexed by slot handle
    peers,         \* Peer Sessions alive: id -> record
    cas,           \* Connect Attempts alive: id -> record
    timer,         \* state of the Timer child
    stoppable,     \* Stoppable base state of the overlay
    stopQueued,    \* OverlayImpl::stop dispatched on strand_ by onStop, not yet run
    stoppedCount,  \* number of times stopped() was signalled
    dtor,          \* progress of ~OverlayImpl
    asserts,       \* assertions of the code that have failed
    last,          \* the most recent onHandoff call: inputs, steps and result
    net            \* message routing: HashRouter, configuration, messages sent

vars == <<next_id_, work_, list_, m_peers, ids_, slots, peers, cas, timer,
          stoppable, stopQueued, stoppedCount, dtor, asserts, last, net>>

\* --------------------------------------------------------------- helpers

Restrict(f, S) == [x \in S |-> f[x]]

Extend(f, k, v) == [x \in (DOMAIN f) \cup {k} |-> IF x = k THEN v ELSE f[x]]

\* ------------------------------------------------------------ PeerFinder

OpenSlots(s) == {i \in 1..Len(s) : s[i].state # "closed"}

ActiveSlots(s) == {i \in 1..Len(s) : s[i].state = "active"}

\* new_inbound_slot: null on a self-connect or when the address is at its limit.
PF_inbound_refused(s, local, remote) ==
    \/ remote = local
    \/ Cardinality({i \in OpenSlots(s) : s[i].inbound /\ s[i].remote = remote})
           >= IpLimit

PF_new_inbound_slot(s, local, remote) ==
    IF PF_inbound_refused(s, local, remote)
    THEN [slots |-> s, slot |-> NoSlot]
    ELSE [slots |-> Append(s, [state |-> "accept", inbound |-> TRUE,
                               remote |-> remote, key |-> NoKey]),
          slot |-> Len(s) + 1]

\* new_outbound_slot: null when out of outbound capacity or the remote already
\* has an open slot.
PF_outbound_refused(s, remote) ==
    \/ Cardinality({i \in OpenSlots(s) : ~s[i].inbound}) >= MaxOutbound
    \/ \E i \in OpenSlots(s) : s[i].remote = remote

PF_new_outbound_slot(s, remote) ==
    IF PF_outbound_refused(s, remote)
    THEN [slots |-> s, slot |-> NoSlot]
    ELSE [slots |-> Append(s, [state |-> "connect", inbound |-> FALSE,
                               remote |-> remote, key |-> NoKey]),
          slot |-> Len(s) + 1]

\* onConnected: Connect -> Connected; false on a detected duplicate.
PF_onConnected(s, slot, dup) ==
    IF dup \/ s[slot].state # "connect"
    THEN [slots |-> s, ok |-> FALSE]
    ELSE [slots |-> [s EXCEPT ![slot].state = "connected"], ok |-> TRUE]

\* activate: the final admission gate.
PF_activateResult(s, slot, key, cluster) ==
    IF s[slot].state \notin {"accept", "connected"} THEN "full"
    ELSE IF \E i \in ActiveSlots(s) : s[i].key = key THEN "duplicate"
    ELSE IF /\ s[slot].inbound
            /\ ~cluster
            /\ Cardinality({i \in ActiveSlots(s) : s[i].inbound}) >= MaxInbound
         THEN "full"
    ELSE "success"

PF_activate(s, slot, key, cluster) ==
    LET r == PF_activateResult(s, slot, key, cluster) IN
    [slots |-> IF r = "success"
               THEN [s EXCEPT ![slot].state = "active", ![slot].key = key]
               ELSE s,
     result |-> r]

\* on_closed: idempotent teardown; the slot leaves the table, only its handle
\* stays known as closed.
PF_on_closed(s, slot) ==
    [s EXCEPT ![slot] = [state |-> "closed", inbound |-> FALSE,
                         remote |-> "", key |-> NoKey]]

\* redirect: endpoints of the active peers, in slot order, the asking slot left out.
RECURSIVE PF_redirectFrom(_, _, _)
PF_redirectFrom(s, slot, i) ==
    IF i > Len(s) THEN <<>>
    ELSE (IF i # slot /\ s[i].state = "active" THEN <<s[i].remote>> ELSE <<>>)
         \o PF_redirectFrom(s, slot, i + 1)

PF_redirect(s, slot) == PF_redirectFrom(s, slot, 1)

\* ---------------------------------------------------------- HTTP helpers

\* Header values are sequences of one-character strings.
PeerToken == <<"p", "e", "e", "r">>

ToLower(ch) ==
    CASE ch = "P" -> "p"
      [] ch = "E" -> "e"
      [] ch = "R" -> "r"
      [] ch = "L" -> "l"
      [] OTHER -> ch

\* rfc2616::split_commas: elements between commas, white space dropped, empty
\* elements dropped.
RECURSIVE SplitFrom(_, _, _, _)
SplitFrom(s, i, e, res) ==
    IF i > Len(s) THEN (IF e # <<>> THEN Append(res, e) ELSE res)
    ELSE IF s[i] = "," THEN SplitFrom(s, i + 1, <<>>,
                                      IF e # <<>> THEN Append(res, e) ELSE res)
    ELSE IF s[i] = " " THEN SplitFrom(s, i + 1, e, res)
    ELSE SplitFrom(s, i + 1, Append(e, s[i]), res)

split_commas(s) == SplitFrom(s, 1, <<>>, <<>>)

ci_equal(a, b) ==
    /\ Len(a) = Len(b)
    /\ \A i \in 1..Len(a) : ToLower(a[i]) = ToLower(b[i])

\* A mutant of ConnectAsIsPeer: the comparison is case-sensitive.
ConnectAsIsPeer_caseSensitive(hdr) ==
    LET types == split_commas(hdr) IN
    \E i \in 1..Len(types) : types[i] = PeerToken

\* The Connect-As test of onHandoff: some element equals "peer" ignoring case.
ConnectAsIsPeer(hdr) ==
    LET types == split_commas(hdr) IN
    \E i \in 1..Len(types) : ci_equal(types[i], PeerToken)

ConnectAsHeaders ==
    { <<>>,
      <<"P", "e", "e", "r">>,
      <<"p", "e", "e", "r">>,
      <<"P", "E", "E", "R">>,
      <<"l", "e", "a", "f">>,
      <<"l", "e", "a", "f", ",", " ", "p", "E", "e", "R">>,
      <<"p", "e", "e", "r", "s">>,
      <<"p", "e", "e", ",", "r">> }

\* verifyHello: the advertised key when the signature over the shared value
\* verifies and the key is not our own; none otherwise.
verifyHello(in) ==
    IF in.sigOk /\ in.helloKey # OwnKey THEN in.helloKey ELSE NoKey

isPeerUpgrade(in) == in.upgrade /\ in.versions > 0

processRequest(in) == in.url = "/crawl"

NoResponse == [status |-> 0, peer_ips |-> <<>>, remote_address |-> ""]

CrawlResponse == [status |-> 200, peer_ips |-> <<>>, remote_address |-> ""]

\* A mutant of makeRedirectResponse: the status is not 503.
makeRedirectResponse_ok(s, slot, in) ==
    [status |-> 200, peer_ips |-> PF_redirect(s, slot),
     remote_address |-> in.remote]

makeRedirectResponse(s, slot, in) ==
    [status |-> 503, peer_ips |-> PF_redirect(s, slot),
     remote_address |-> in.remote]

\* ------------------------------------------------- requests of the model

BaseInput ==
    [url |-> "/", upgrade |-> TRUE, versions |-> 1, localOk |-> TRUE,
     overLimit |-> FALSE, remote |-> "e1", connectAs |-> <<"P", "e", "e", "r">>,
     keepAlive |-> TRUE, helloOk |-> TRUE, sharedOk |-> TRUE, sigOk |-> TRUE,
     helloKey |-> "k1", cluster |-> FALSE]

HandoffInputs ==
    {[BaseInput EXCEPT !.url = "/crawl", !.upgrade = u, !.overLimit = o] :
        u \in BOOLEAN, o \in BOOLEAN}
    \cup {[BaseInput EXCEPT !.upgrade = FALSE], [BaseInput EXCEPT !.versions = 0]}
    \cup {[BaseInput EXCEPT !.localOk = FALSE]}
    \cup {[BaseInput EXCEPT !.overLimit = TRUE, !.remote = r] : r \in Endpoints}
    \cup {[BaseInput EXCEPT !.remote = SelfEndpoint]}
    \cup {[BaseInput EXCEPT !.remote = r, !.connectAs = h] :
            r \in Endpoints, h \in ConnectAsHeaders}
    \cup {[BaseInput EXCEPT !.connectAs = <<"l", "e", "a", "f">>,
                            !.keepAlive = FALSE]}
    \cup {[BaseInput EXCEPT !.helloOk = FALSE],
          [BaseInput EXCEPT !.sharedOk = FALSE],
          [BaseInput EXCEPT !.sigOk = FALSE],
          [BaseInput EXCEPT !.helloKey = OwnKey]}
    \cup {[BaseInput EXCEPT !.remote = r, !.helloKey = k, !.cluster = c] :
            r \in Endpoints, k \in Keys, c \in BOOLEAN}

\* Upgrades of cluster members, which the inbound limit does not hold back.
SelectInputs ==
    {[BaseInput EXCEPT !.remote = "e1", !.helloKey = "k1", !.cluster = TRUE],
     [BaseInput EXCEPT !.remote = "e2", !.helloKey = "k2", !.cluster = TRUE],
     [BaseInput EXCEPT !.remote = "e2", !.helloKey = "k3", !.cluster = TRUE]}

ClusterInputs ==
    {[BaseInput EXCEPT !.remote = "e1", !.helloKey = "k1", !.cluster = TRUE],
     [BaseInput EXCEPT !.remote = "e2", !.helloKey = "k2", !.cluster = TRUE]}

CoreInputs ==
    {BaseInput, [BaseInput EXCEPT !.connectAs = <<"l", "e", "a", "f">>]}

\* ------------------------------------------------- OverlayImpl::onHandoff
\* The handler as a function of the request and the PeerFinder state.  Each
\* stage appends its name to steps when it runs; the stages are defined last
\* to first.

Log(c, step) == [c EXCEPT !.steps = Append(@, step)]

Ret(c, moved, response, keep_alive, peer) ==
    [steps |-> c.steps, slots |-> c.slots, slot |-> c.slot, act |-> c.act,
     key |-> c.key, moved |-> moved, response |-> response,
     keep_alive |-> keep_alive, peer |-> peer, redirectOn |-> c.redirectOn]

\* makeRedirectResponse consults redirect(slot): the state the slot is in then.
Redirected(c) == [c EXCEPT !.redirectOn = c.slots[c.slot].state]

\* A mutant of HActivate: a failed activate still constructs the peer.
HActivate_ignoreResult(in, c, key) ==
    LET a == PF_activate(c.slots, c.slot, key, in.cluster)
        c1 == [Log(c, "activate") EXCEPT !.slots = a.slots, !.act = a.result,
                                         !.key = key]
    IN Ret(c1, TRUE, NoResponse, FALSE, TRUE)

\* activate, and on failure on_closed then the redirect response.
HActivate(in, c, key) ==
    LET a == PF_activate(c.slots, c.slot, key, in.cluster)
        c1 == [Log(c, "activate") EXCEPT !.slots = a.slots, !.act = a.result,
                                         !.key = key]
    IN IF a.result # "success"
       THEN LET s2 == PF_on_closed(c1.slots, c1.slot) IN
            Ret(Redirected([Log(c1, "on_closed") EXCEPT !.slots = s2]), FALSE,
                makeRedirectResponse(s2, c1.slot, in), in.keepAlive, FALSE)
       ELSE Ret(c1, TRUE, NoResponse, FALSE, TRUE)

\* A mutant of HVerify: a failed verification still goes on to activate.
HVerify_ignoreFailure(in, c) ==
    HActivate(in, Log(c, "verify"), in.helloKey)

HVerify(in, c) ==
    LET publicKey == verifyHello(in) IN
    IF publicKey = NoKey
    THEN Ret(Log(c, "verify"), TRUE, NoResponse, FALSE, FALSE)
    ELSE HActivate(in, Log(c, "verify"), publicKey)

HShared(in, c) ==
    IF ~in.sharedOk
    THEN Ret(Log(c, "shared"), TRUE, NoResponse, FALSE, FALSE)
    ELSE HVerify(in, Log(c, "shared"))

HHello(in, c) ==
    IF ~in.helloOk
    THEN Ret(Log(c, "hello"), TRUE, NoResponse, FALSE, FALSE)
    ELSE HShared(in, Log(c, "hello"))

HConnectAs(in, c) ==
    IF ~ConnectAsIsPeer(in.connectAs)
    THEN Ret(Redirected(Log(c, "connectas")), FALSE,
             makeRedirectResponse(c.slots, c.slot, in), in.keepAlive, FALSE)
    ELSE HHello(in, Log(c, "connectas"))

HSlot(in, c) ==
    LET n == PF_new_inbound_slot(c.slots, SelfEndpoint, in.remote)
        c1 == [Log(c, "slot") EXCEPT !.slots = n.slots, !.slot = n.slot]
    IN IF n.slot = NoSlot
       THEN Ret(c1, FALSE, NoResponse, FALSE, FALSE)
       ELSE HConnectAs(in, c1)

\* A mutant of HResource: the over-limit result of the consumer is ignored.
HResource_ignoreLimit(in, c) == HSlot(in, Log(c, "resource"))

HResource(in, c) ==
    IF in.overLimit
    THEN Ret(Log(c, "resource"), TRUE, NoResponse, FALSE, FALSE)
    ELSE HSlot(in, Log(c, "resource"))

HLocal(in, c) ==
    IF ~in.localOk
    THEN Ret(Log(c, "local"), TRUE, NoResponse, FALSE, FALSE)
    ELSE HResource(in, Log(c, "local"))

HUpgrade(in, c) ==
    IF ~isPeerUpgrade(in)
    THEN Ret(Log(c, "upgrade"), FALSE, NoResponse, FALSE, FALSE)
    ELSE HLocal(in, Log(c, "upgrade"))

onHandoff(in, s) ==
    LET c == [steps |-> <<"crawl">>, slots |-> s, slot |-> NoSlot,
              act |-> "none", key |-> NoKey, redirectOn |-> "none"]
    IN IF processRequest(in)
       THEN Ret(c, FALSE, CrawlResponse, FALSE, FALSE)
       ELSE HUpgrade(in, c)

\* ------------------------------------------------------ Stoppable, stop()

isStopping(st) == st # "running"

areChildrenStopped(st) == st \in {"childrenStopped", "notified"}

\* A mutant of checkStopped: the emptiness of list_ is not tested.
checkStopped_anyList(l, st, cnt) ==
    IF isStopping(st) /\ areChildrenStopped(st) THEN cnt + 1 ELSE cnt

\* OverlayImpl::checkStopped: the new count of stopped() signals.
checkStopped(l, st, cnt) ==
    IF isStopping(st) /\ areChildrenStopped(st) /\ l = {} THEN cnt + 1 ELSE cnt

\* A mutant of removeChild: the last removal does not call checkStopped.
removeChild_noCheck(l, st, cnt) == cnt

\* OverlayImpl::remove(Child&), l being list_ after the erase.
removeChild(l, st, cnt) ==
    IF l = {} THEN checkStopped(l, st, cnt) ELSE cnt

\* Timer::stop: cancels the pending wait.
TimerStopped(t, l) ==
    IF TimerChild \in l /\ t = "waiting" THEN "aborted" ELSE t

\* ConnectAttempt::stop off its strand: posts itself.
CasStopped(c, l) ==
    [id \in DOMAIN c |->
        IF <<"ca", id>> \in l
        THEN [c[id] EXCEPT !.stopPosted = TRUE, !.stopCalled = TRUE]
        ELSE c[id]]

\* Peer Session stop: closes the socket.
PeersStopped(p, l) ==
    [id \in DOMAIN p |->
        IF <<"peer", id>> \in l
        THEN [p[id] EXCEPT !.state = IF @ = "running" THEN "closing" ELSE @,
                           !.stopCalled = TRUE]
        ELSE p[id]]

\* OverlayImpl::stop.
OverlayStop ==
    IF work_
    THEN /\ work_' = FALSE
         /\ timer' = TimerStopped(timer, list_)
         /\ cas' = CasStopped(cas, list_)
         /\ peers' = PeersStopped(peers, list_)
    ELSE UNCHANGED <<work_, timer, cas, peers>>

Alive == dtor # "returned"

\* -------------------------------------------------------- message routing

\* Content hash of the proposal or validation the model routes.
Uids == {"u1"}

\* Largest hop count a relayed message may carry.
maxTTL == 2

\* A proposal or a validation, as far as send and relay look at it: without
\* a hop count, or with one just below, at or above maxTTL.
Msgs ==
    {[has_hops |-> FALSE, hops |-> 0]}
    \cup {[has_hops |-> TRUE, hops |-> h] : h \in (maxTTL - 1)..(maxTTL + 1)}

NoMsg == [has_hops |-> FALSE, hops |-> 0]

\* HashRouter entry of a content hash nobody has seen.
NoEntry == [peers |-> {}, relayed |-> FALSE]

\* HashRouter::addSuppressionPeer: the peer is recorded as having seen the
\* content; true when the content was not known before.
addSuppressionPeer(router, uid, peer) ==
    [router |-> [router EXCEPT ![uid].peers = @ \cup {peer}],
     added |-> router[uid] = NoEntry]

\* HashRouter::swapSet with SF_RELAYED: the caller gets the stored set, the
\* stored set keeps the union, the flag is set; true iff it was newly set.
swapSet(router, uid, peerSet) ==
    [router |-> [router EXCEPT ![uid].peers = @ \cup peerSet,
                               ![uid].relayed = TRUE],
     peerSet |-> router[uid].peers \cup peerSet,
     ok |-> ~router[uid].relayed]

\* for_each: the active peers, those of ids_.
for_each(ids) == ids

\* A mutant of relay: the hop count is not compared with maxTTL.
relay_noTTL(m, uid, router, ids, aware) ==
    LET sw == swapSet(router, uid, {}) IN
    [router |-> sw.router, swapped |-> TRUE, ok |-> sw.ok, skip |-> sw.peerSet,
     to |-> IF sw.ok
            THEN {p \in for_each(ids) \ sw.peerSet : ~m.has_hops \/ aware[p]}
            ELSE {},
     wire |-> m]

\* A mutant of relay: the result of swapSet is ignored.
relay_always(m, uid, router, ids, aware) ==
    LET sw == swapSet(router, uid, {}) IN
    IF m.has_hops /\ m.hops >= maxTTL
    THEN [router |-> router, swapped |-> FALSE, ok |-> FALSE, skip |-> {},
          to |-> {}, wire |-> m]
    ELSE [router |-> sw.router, swapped |-> TRUE, ok |-> sw.ok,
          skip |-> sw.peerSet,
          to |-> {p \in for_each(ids) \ sw.peerSet : ~m.has_hops \/ aware[p]},
          wire |-> m]

\* A mutant of relay: the skip set is not consulted.
relay_noSkip(m, uid, router, ids, aware) ==
    LET sw == swapSet(router, uid, {}) IN
    IF m.has_hops /\ m.hops >= maxTTL
    THEN [router |-> router, swapped |-> FALSE, ok |-> FALSE, skip |-> {},
          to |-> {}, wire |-> m]
    ELSE [router |-> sw.router, swapped |-> TRUE, ok |-> sw.ok,
          skip |-> sw.peerSet,
          to |-> IF sw.ok
                 THEN {p \in for_each(ids) : ~m.has_hops \/ aware[p]}
                 ELSE {},
          wire |-> m]

\* A mutant of relay: swapSet is called before the hop count is looked at.
relay_swapFirst(m, uid, router, ids, aware) ==
    LET sw == swapSet(router, uid, {}) IN
    IF m.has_hops /\ m.hops >= maxTTL
    THEN [router |-> sw.router, swapped |-> FALSE, ok |-> FALSE, skip |-> {},
          to |-> {}, wire |-> m]
    ELSE [router |-> sw.router, swapped |-> TRUE, ok |-> sw.ok,
          skip |-> sw.peerSet,
          to |-> IF sw.ok
                 THEN {p \in for_each(ids) \ sw.peerSet :
                          ~m.has_hops \/ aware[p]}
                 ELSE {},
          wire |-> m]

\* OverlayImpl::relay, for a proposal and for a validation alike: the new
\* router, the peers the message is sent to and the message as sent.
relay(m, uid, router, ids, aware) ==
    LET sw == swapSet(router, uid, {}) IN
    IF m.has_hops /\ m.hops >= maxTTL
    THEN [router |-> router, swapped |-> FALSE, ok |-> FALSE, skip |-> {},
          to |-> {}, wire |-> m]
    ELSE [router |-> sw.router, swapped |-> TRUE, ok |-> sw.ok,
          skip |-> sw.peerSet,
          to |-> IF sw.ok
                 THEN {p \in for_each(ids) \ sw.peerSet :
                          ~m.has_hops \/ aware[p]}
                 ELSE {},
          wire |-> m]

\* A mutant of send: the hop count is left as the caller gave it.
send_keepHops(m, expire, ids, aware) ==
    [to |-> {p \in for_each(ids) : ~m.has_hops \/ aware[p]}, wire |-> m]

\* OverlayImpl::send, for a proposal and for a validation alike.
send(m, expire, ids, aware) ==
    LET m1 == IF expire THEN [m EXCEPT !.has_hops = TRUE, !.hops = 0] ELSE m
    IN [to |-> {p \in for_each(ids) : ~m1.has_hops \/ aware[p]}, wire |-> m1]

\* The record of a connect call; tick tells one call from the next.
NoConn ==
    [tick |-> FALSE, remote |-> "", over |-> FALSE, asked |-> FALSE,
     made |-> FALSE]

\* ------------------------------------------------------------- manifests

ManifestHashes == {"h1", "h2"}

Dispositions == {"accepted", "untrusted", "stale", "invalid"}

\* A manifest of a TMManifests message: whether make_Manifest can read it, its
\* hash, and what applyManifest will answer for it.
Manifests ==
    {[ok |-> FALSE, hash |-> "h1", disp |-> "invalid"]}
    \cup {[ok |-> TRUE, hash |-> h, disp |-> d] :
            h \in ManifestHashes, d \in Dispositions}

\* The lists of one manifest, and of two where the second is one that
\* applyManifest accepts.
ManifestLists ==
    {<<a>> : a \in Manifests}
    \cup {<<a, b>> : a \in Manifests,
                     b \in {x \in Manifests : x.ok /\ x.disp = "accepted"}}

\* What onManifests did with one manifest of the list.
Item(it, applied, published, persisted, relayed, skip, to) ==
    [hash |-> it.hash, ok |-> it.ok, disp |-> it.disp, applied |-> applied,
     published |-> published, persisted |-> persisted, relayed |-> relayed,
     skip |-> skip, to |-> to]

\* A mutant of onManifestsFrom: an untrusted manifest is treated as accepted.
RECURSIVE onManifestsFrom_untrustedToo(_, _, _, _, _, _, _)
onManifestsFrom_untrustedToo(list, i, history, from, router, ids, out) ==
    IF i > Len(list) THEN [router |-> router, items |-> out]
    ELSE
    LET it == list[i]
        a == addSuppressionPeer(router, it.hash, from)
        sw == swapSet(a.router, it.hash, {})
        good == it.disp \in {"accepted", "untrusted"}
    IN IF ~it.ok
       THEN onManifestsFrom_untrustedToo(list, i + 1, history, from, router, ids,
                Append(out, Item(it, FALSE, FALSE, FALSE, FALSE, {}, {})))
       ELSE IF ~a.added
       THEN onManifestsFrom_untrustedToo(list, i + 1, history, from, a.router,
                ids, Append(out, Item(it, FALSE, FALSE, FALSE, FALSE, {}, {})))
       ELSE IF history
       THEN onManifestsFrom_untrustedToo(list, i + 1, history, from, sw.router,
                ids, Append(out, Item(it, TRUE, good, good, FALSE,
                                      sw.peerSet, {})))
       ELSE IF good
       THEN onManifestsFrom_untrustedToo(list, i + 1, history, from, sw.router,
                ids, Append(out, Item(it, TRUE, good, good, TRUE, sw.peerSet,
                                      for_each(ids) \ sw.peerSet)))
       ELSE onManifestsFrom_untrustedToo(list, i + 1, history, from, a.router,
                ids, Append(out, Item(it, TRUE, good, good, FALSE, {}, {})))

\* A mutant of onManifestsFrom: the re-announcement goes to every active peer.
RECURSIVE onManifestsFrom_noSkip(_, _, _, _, _, _, _)
onManifestsFrom_noSkip(list, i, history, from, router, ids, out) ==
    IF i > Len(list) THEN [router |-> router, items |-> out]
    ELSE
    LET it == list[i]
        a == addSuppressionPeer(router, it.hash, from)
        sw == swapSet(a.router, it.hash, {})
        published == it.disp \in {"accepted", "untrusted"}
        persisted == it.disp = "accepted"
    IN IF ~it.ok
       THEN onManifestsFrom_noSkip(list, i + 1, history, from, router, ids,
                Append(out, Item(it, FALSE, FALSE, FALSE, FALSE, {}, {})))
       ELSE IF ~a.added
       THEN onManifestsFrom_noSkip(list, i + 1, history, from, a.router,
                ids, Append(out, Item(it, FALSE, FALSE, FALSE, FALSE, {}, {})))
       ELSE IF history
       THEN onManifestsFrom_noSkip(list, i + 1, history, from, sw.router,
                ids, Append(out, Item(it, TRUE, published, persisted, FALSE,
                                      sw.peerSet, {})))
       ELSE IF it.disp = "accepted"
       THEN onManifestsFrom_noSkip(list, i + 1, history, from, sw.router,
                ids, Append(out, Item(it, TRUE, published, persisted, TRUE,
                                      sw.peerSet, for_each(ids))))
       ELSE onManifestsFrom_noSkip(list, i + 1, history, from, a.router,
                ids, Append(out, Item(it, TRUE, published, persisted, FALSE,
                                      {}, {})))

\* The loop of OverlayImpl::onManifests from manifest i on: the router it
\* leaves and what it did with each manifest.
RECURSIVE onManifestsFrom(_, _, _, _, _, _, _)
onManifestsFrom(list, i, history, from, router, ids, out) ==
    IF i > Len(list) THEN [router |-> router, items |-> out]
    ELSE
    LET it == list[i]
        a == addSuppressionPeer(router, it.hash, from)
        sw == swapSet(a.router, it.hash, {})
        published == it.disp \in {"accepted", "untrusted"}
        persisted == it.disp = "accepted"
    IN IF ~it.ok
       THEN onManifestsFrom(list, i + 1, history, from, router, ids,
                Append(out, Item(it, FALSE, FALSE, FALSE, FALSE, {}, {})))
       ELSE IF ~a.added
       THEN onManifestsFrom(list, i + 1, history, from, a.router,
                ids, Append(out, Item(it, FALSE, FALSE, FALSE, FALSE, {}, {})))
       ELSE IF history
       THEN onManifestsFrom(list, i + 1, history, from, sw.router,
                ids, Append(out, Item(it, TRUE, published, persisted, FALSE,
                                      sw.peerSet, {})))
       ELSE IF it.disp = "accepted"
       THEN onManifestsFrom(list, i + 1, history, from, sw.router,
                ids, Append(out, Item(it, TRUE, published, persisted, TRUE,
                                      sw.peerSet,
                                      for_each(ids) \ sw.peerSet)))
       ELSE onManifestsFrom(list, i + 1, history, from, a.router,
                ids, Append(out, Item(it, TRUE, published, persisted, FALSE,
                                      {}, {})))

\* A mutant of onManifests: the history mark of the message is not read.
onManifests_noHistory(list, history, from, router, ids) ==
    onManifestsFrom(list, 1, FALSE, from, router, ids, <<>>)

\* A mutant of onManifests: the manifests are recorded under no sender.
onManifests_noSender(list, history, from, router, ids) ==
    onManifestsFrom(list, 1, history, 0, router, ids, <<>>)

\* OverlayImpl::onManifests.
onManifests(list, history, from, router, ids) ==
    onManifestsFrom(list, 1, history, from, router, ids, <<>>)

\* ------------------------------------------------------------ selectPeers

\* The scores getScore can give a peer, and the limits a caller can pass.
Scores == 0..1

Limits == 0..2

\* The order in which for_each visits the active peers: by ascending id.
RECURSIVE enumerate(_)
enumerate(ids) ==
    IF ids = {} THEN <<>>
    ELSE LET p == CHOOSE x \in ids : \A y \in ids : x <= y
         IN <<p>> \o enumerate(ids \ {p})

\* The orders std::sort can leave v in under the comparison
\* lhs.first > rhs.first: every arrangement of v in which no element comes
\* before one of strictly higher score. The order of elements of equal score
\* is not specified.
std_sort(v, score) ==
    {[i \in 1..Len(v) |-> v[f[i]]] :
        f \in {g \in [1..Len(v) -> 1..Len(v)] :
                 /\ \A i, j \in 1..Len(v) : i # j => g[i] # g[j]
                 /\ \A i, j \in 1..Len(v) :
                      i < j => score[v[g[i]]] >= score[v[g[j]]]}}

\* The insertion loop of selectPeers from element i of the sorted vector on.
RECURSIVE selectFrom(_, _, _, _, _, _)
selectFrom(v, i, set, limit, accepted, inserted) ==
    IF i > Len(v)
    THEN [set |-> set, accepted |-> accepted, inserted |-> inserted]
    ELSE IF v[i] \notin set /\ accepted + 1 >= limit
    THEN [set |-> set \cup {v[i]}, accepted |-> accepted + 1,
          inserted |-> Append(inserted, v[i])]
    ELSE IF v[i] \notin set
    THEN selectFrom(v, i + 1, set \cup {v[i]}, limit, accepted + 1,
                    Append(inserted, v[i]))
    ELSE selectFrom(v, i + 1, set, limit, accepted, inserted)

\* OverlayImpl::selectPeers on the sorted vector.
selectPeers(sorted, set, limit) == selectFrom(sorted, 1, set, limit, 0, <<>>)

NoSel ==
    [order |-> <<>>, score |-> <<>>, limit |-> 0, before |-> {},
     sorted |-> <<>>, set |-> {}, accepted |-> 0, inserted |-> <<>>]

\* ------------------------------------------------- beast::http write_op

\* What the body writer wp.w can answer: an error, indeterminate (it will
\* call resume), or buffers handed to the write function (more to come or
\* not, by what is left of the body).
WriterResults == {"error", "suspend", "write"}

\* write_op::data before the operation is started.  pieces is the number of
\* buffers the body writer will hand over, left how many it still has; sb
\* tells that the serialized headers are still in wp.sb; pending is what the
\* operation waits for; written is what has been given to the stream and
\* calls the error codes the handler was called with.
NoWriteOp ==
    [started |-> FALSE, state |-> 0, chunked |-> FALSE, close |-> FALSE,
     pieces |-> 1, left |-> 1, sb |-> TRUE, cont |-> FALSE, susp |-> FALSE,
     pending |-> "none", pend_ec |-> "ok", written |-> <<>>, calls |-> <<>>]

\* A mutant of case5: the close of the message is not looked at.
case5_noEof(d) == [d |-> [d EXCEPT !.state = 99], ec |-> "ok"]

\* case 5 of write_op::operator(): eof when the message asks for the
\* connection to be closed.
case5(d) ==
    [d |-> [d EXCEPT !.state = 99], ec |-> IF d.close THEN "eof" ELSE "ok"]

\* write_op::operator() from its loop on: initEc is what wp.init will give,
\* w what wp.w will answer.  Leaving the loop calls the handler.
RECURSIVE write_op(_, _, _, _)
write_op(d, ec, initEc, w) ==
    LET body == [d EXCEPT
                   !.written = @ \o (IF d.state = 1 /\ d.sb
                                     THEN <<"headers", "body">>
                                     ELSE <<"body">>),
                   !.pending = "write",
                   !.left = @ - 1,
                   !.state = IF d.left > 1 THEN 2
                             ELSE IF d.chunked THEN 4 ELSE 5]
        suspended == [d EXCEPT !.pending = "suspended", !.susp = TRUE]
    IN IF ec # "ok" \/ d.state = 99
       THEN [d EXCEPT !.calls = Append(@, ec), !.pending = "none"]
       ELSE CASE d.state = 0 ->
                   IF initEc # "ok"
                   THEN [d EXCEPT !.state = 99, !.pending = "post0",
                                  !.pend_ec = initEc]
                   ELSE write_op([d EXCEPT !.state = 1], ec, initEc, w)
              [] d.state = 1 ->
                   IF w = "error"
                   THEN [d EXCEPT !.state = 99, !.pending = "post1",
                                  !.pend_ec = "error"]
                   ELSE IF w = "suspend" THEN suspended
                   ELSE body
              [] d.state = 2 ->
                   write_op([d EXCEPT !.sb = FALSE, !.state = 3], ec, initEc, w)
              [] d.state = 3 ->
                   IF w = "error"
                   THEN write_op([d EXCEPT !.state = 99], "error", initEc, w)
                   ELSE IF w = "suspend" THEN suspended
                   ELSE body
              [] d.state = 4 ->
                   [d EXCEPT !.state = 5, !.written = Append(@, "final"),
                             !.pending = "write"]
              [] OTHER ->
                   write_op(case5(d).d, case5(d).ec, initEc, w)

\* ------------------------------------------------- beast invokable

\* Two invokables, none engaged: b_ of each, the operation its buffer holds
\* (0: none, or one that was moved from or destroyed), the next operation to
\* park, how often each operation was invoked (under 0: calls through a
\* holder that holds none), the operations parked by a running operation,
\* and the assertions that failed.
NoInvokable ==
    [b_ |-> <<FALSE, FALSE>>, f |-> <<0, 0>>, next |-> 1,
     runs |-> [k \in 0..MaxParked |-> 0], nested |-> {}, asserts |-> {}]

\* invokable::emplace.
emplace(v, i, f) ==
    [v EXCEPT !.asserts = IF v.b_[i] THEN @ \cup {"emplace"} ELSE @,
              !.f[i] = f,
              !.b_[i] = TRUE]

\* invokable::operator=(invokable&&), invokable j being assigned to i.
move_assign(v, i, j) ==
    LET a == [v EXCEPT !.asserts = IF v.b_[i] THEN @ \cup {"operator="}
                                   ELSE @]
    IN IF v.b_[j]
       THEN [a EXCEPT !.b_[i] = TRUE, !.f[i] = v.f[j], !.f[j] = 0,
                      !.b_[j] = FALSE]
       ELSE a

\* holder::operator(): the operation is moved out, the holder destroyed, the
\* operation run.  what is what the operation does to the invokables: it
\* parks a new operation in i, assigns invokable j to i, or nothing.
holder_call(v, i, what, j) ==
    LET f_ == v.f[i]
        gone == [v EXCEPT !.f[i] = 0, !.runs[f_] = @ + 1]
    IN CASE what = "emplace" ->
              [emplace(gone, i, gone.next) EXCEPT
                  !.next = @ + 1, !.nested = @ \cup {gone.next}]
         [] what = "assign" -> move_assign(gone, i, j)
         [] OTHER -> gone

\* A mutant of maybe_invoke: b_ is not cleared before the call.
maybe_invoke_keepEngaged(v, i, what, j) ==
    IF v.b_[i] THEN holder_call(v, i, what, j) ELSE v

\* invokable::maybe_invoke.
maybe_invoke(v, i, what, j) ==
    IF v.b_[i] THEN holder_call([v EXCEPT !.b_[i] = FALSE], i, what, j) ELSE v

NoCall ==
    [kind |-> "none", uid |-> "u1", m |-> NoMsg, wire |-> NoMsg, to |-> {},
     swapped |-> FALSE, ok |-> FALSE, skip |-> {}, active |-> {},
     items |-> <<>>, history |-> FALSE, from |-> 0, sel |-> NoSel]

\* The routing state of an overlay that has routed nothing yet.
NetInit(expire, aware) ==
    [expire |-> expire, aware |-> aware,
     router |-> [u \in Uids \cup ManifestHashes |-> NoEntry],
     sent |-> [u \in Uids |-> {}],
     twice |-> {},
     call |-> NoCall,
     wop |-> NoWriteOp,
     inv |-> NoInvokable]

\* ------------------------------------------- ConnectAttempt handlers

\* The error codes a completion handler can be given.
Errors == {"ok", "aborted", "eof", "error"}

\* The error codes an operation on the socket of attempt c can complete
\* with: operation_aborted only once the socket has been closed.
Completions(c) == IF c.open THEN Errors \ {"aborted"} ELSE Errors

\* close(): the watchdog is cancelled and the socket closed, if it was open.
close(c) == IF c.open THEN [c EXCEPT !.open = FALSE, !.armed = FALSE] ELSE c

\* fail(): logs, then close().
fail(c) == close(c)

\* setTimer(): the watchdog is armed for 15 seconds.
setTimer(c) == [c EXCEPT !.armed = TRUE]

cancelTimer(c) == [c EXCEPT !.armed = FALSE]

\* A handler returns without starting an operation.
Returned(c) == [c EXCEPT !.phase = "idle"]

\* close() or fail() in a handler, which then returns.
CaClosed(c) == Returned(close(c))

\* What a handler did: the attempt and the slots it leaves, the operation it
\* started, the calls it made into the PeerFinder and the overlay, the
\* onRedirects calls, and on a handoff the key and the buffers.
Out(c, s) ==
    [c |-> c, slots |-> s, op |-> "none", calls |-> {}, redirects |-> <<>>,
     peer |-> FALSE, key |-> NoKey, handed |-> <<>>, leftover |-> <<>>]

\* ---- the response of the remote and its body

\* A JSON value of peer-ips: a string, or something else.
Entries ==
    {[isString |-> TRUE, text |-> "e1"], [isString |-> TRUE, text |-> "e2"],
     [isString |-> TRUE, text |-> "bad"], [isString |-> FALSE, text |-> "e1"]}

\* parse_endpoint: the texts that are endpoints parse.
parse_endpoint(text) == [ok |-> text \in Endpoints, ep |-> text]

Body(valid, object, member, array, entries) ==
    [valid |-> valid, object |-> object, member |-> member, array |-> array,
     entries |-> entries]

NoBody == Body(FALSE, FALSE, FALSE, FALSE, <<>>)

\* Bodies: not JSON, JSON that is no object, an object without peer-ips, one
\* whose peer-ips is no array, and arrays of entries.
Bodies ==
    {NoBody, Body(TRUE, FALSE, FALSE, FALSE, <<>>),
     Body(TRUE, TRUE, FALSE, FALSE, <<>>), Body(TRUE, TRUE, TRUE, FALSE, <<>>),
     Body(TRUE, TRUE, TRUE, TRUE, <<>>)}
    \cup {Body(TRUE, TRUE, TRUE, TRUE, <<a, b>>) : a \in Entries, b \in Entries}

\* The loop over peer-ips: the strings that parse, in order.
RECURSIVE redirectEndpoints(_, _)
redirectEndpoints(entries, i) ==
    IF i > Len(entries) THEN <<>>
    ELSE LET v == entries[i]
             rest == redirectEndpoints(entries, i + 1)
         IN IF v.isString /\ parse_endpoint(v.text).ok
            THEN <<parse_endpoint(v.text).ep>> \o rest
            ELSE rest

\* A mutant of onRedirectsCalls: a body of any status is read.
onRedirectsCalls_anyStatus(c, resp) ==
    IF resp.body.valid /\ resp.body.object /\ resp.body.member
       /\ resp.body.array
    THEN <<[remote |-> c.remote,
            eps |-> redirectEndpoints(resp.body.entries, 1)]>>
    ELSE <<>>

\* The first part of processResponse: the onRedirects calls it makes.
onRedirectsCalls(c, resp) ==
    IF resp.status = 503 /\ resp.body.valid /\ resp.body.object
       /\ resp.body.member /\ resp.body.array
    THEN <<[remote |-> c.remote,
            eps |-> redirectEndpoints(resp.body.entries, 1)]>>
    ELSE <<>>

\* isPeerUpgrade of a response.
isPeerUpgradeResponse(resp) == resp.upgrade /\ resp.status = 101

Response(status, upgrade, helloOk, sharedOk, key) ==
    [status |-> status, upgrade |-> upgrade, helloOk |-> helloOk,
     sharedOk |-> sharedOk, key |-> key, cluster |-> FALSE, body |-> NoBody,
     extra |-> <<>>]

\* No response: what a handler other than a completed read has in hand.
NoReply == Response(0, FALSE, FALSE, FALSE, NoKey)

CaResponses ==
    {Response(503, FALSE, TRUE, TRUE, NoKey),
     Response(200, TRUE, TRUE, TRUE, "k1"),
     Response(101, TRUE, FALSE, TRUE, "k1"),
     Response(101, TRUE, TRUE, FALSE, "k1"),
     Response(101, TRUE, TRUE, TRUE, NoKey)}
    \cup {Response(101, TRUE, TRUE, TRUE, k) : k \in Keys}

\* The responses of CaResponses, and: every body under 503 and under 200, a
\* 503 that carries the upgrade headers, and an upgrade followed in the same
\* read by the first bytes of the peer protocol.
AttemptResponses ==
    CaResponses
    \cup {[Response(st, FALSE, TRUE, TRUE, NoKey) EXCEPT !.body = b] :
            st \in {503, 200}, b \in Bodies}
    \cup {[Response(503, TRUE, TRUE, TRUE, "k1") EXCEPT
              !.body = Body(TRUE, TRUE, TRUE, TRUE, <<>>)]}
    \cup {[Response(101, TRUE, TRUE, TRUE, k) EXCEPT !.extra = <<"b1", "b2">>] :
            k \in Keys}

\* ---- the handlers

\* A mutant of processResponse: the result of activate is not looked at.
processResponse_ignoreActivate(c, resp, s) ==
    LET red == onRedirectsCalls(c, resp)
        a == PF_activate(s, c.slot, resp.key, resp.cluster)
    IN IF ~isPeerUpgradeResponse(resp)
       THEN [Out(CaClosed(c), s) EXCEPT !.redirects = red]
       ELSE IF ~resp.helloOk \/ ~resp.sharedOk \/ resp.key = NoKey
       THEN [Out(CaClosed(c), s) EXCEPT !.redirects = red]
       ELSE [Out([Returned(c) EXCEPT !.slot = NoSlot], a.slots) EXCEPT
                !.redirects = red, !.calls = {"activate", "add_active"},
                !.peer = TRUE, !.key = resp.key, !.handed = <<>>,
                !.leftover = resp.extra]

\* processResponse.  The PeerImp is given read_buf_, which nothing writes to;
\* what was read beyond the response is in write_buf_.
processResponse(c, resp, s) ==
    LET red == onRedirectsCalls(c, resp)
        a == PF_activate(s, c.slot, resp.key, resp.cluster)
    IN IF ~isPeerUpgradeResponse(resp)
       THEN [Out(CaClosed(c), s) EXCEPT !.redirects = red]
       ELSE IF ~resp.helloOk \/ ~resp.sharedOk \/ resp.key = NoKey
       THEN [Out(CaClosed(c), s) EXCEPT !.redirects = red]
       ELSE IF a.result # "success"
       THEN [Out(CaClosed(c), a.slots) EXCEPT !.redirects = red,
                                              !.calls = {"activate"}]
       ELSE [Out([Returned(c) EXCEPT !.slot = NoSlot], a.slots) EXCEPT
                !.redirects = red, !.calls = {"activate", "add_active"},
                !.peer = TRUE, !.key = resp.key, !.handed = <<>>,
                !.leftover = resp.extra]

\* onTimer.
onTimer(c, ec, s) ==
    IF ~c.open THEN Out(c, s)
    ELSE IF ec = "aborted" THEN Out(c, s)
    ELSE Out(close(c), s)

\* onConnect.  A completion without error is followed by local_endpoint,
\* which fails on a socket that is closed.
onConnect(c0, ec, s) ==
    LET c == cancelTimer(c0) IN
    IF ec = "aborted" THEN Out(Returned(c), s)
    ELSE IF ec # "ok" \/ ~c.open THEN Out(CaClosed(c), s)
    ELSE [Out([setTimer(c) EXCEPT !.phase = "handshake"], s) EXCEPT
             !.op = "handshake"]

\* A mutant of onHandshake: the socket is not tested before the error.
onHandshake_noOpenTest(c0, ec, dup, sharedOk, s) ==
    LET c == cancelTimer(c0)
        r == PF_onConnected(s, c.slot, dup)
    IN IF ec = "aborted" THEN Out(Returned(c), s)
       ELSE IF ec # "ok" THEN Out(CaClosed(c), s)
       ELSE IF ~r.ok \/ ~sharedOk
       THEN [Out(CaClosed(c), r.slots) EXCEPT !.calls = {"onConnected"}]
       ELSE [Out([setTimer(c) EXCEPT !.phase = "write"], r.slots) EXCEPT
                !.op = "write", !.calls = {"onConnected"}]

\* onHandshake: onConnected, makeSharedValue, the upgrade request is written.
onHandshake(c0, ec, dup, sharedOk, s) ==
    LET c == cancelTimer(c0)
        r == PF_onConnected(s, c.slot, dup)
    IN IF ~c.open THEN Out(Returned(c), s)
       ELSE IF ec = "aborted" THEN Out(Returned(c), s)
       ELSE IF ec # "ok" THEN Out(CaClosed(c), s)
       ELSE IF ~r.ok \/ ~sharedOk
       THEN [Out(CaClosed(c), r.slots) EXCEPT !.calls = {"onConnected"}]
       ELSE [Out([setTimer(c) EXCEPT !.phase = "write"], r.slots) EXCEPT
                !.op = "write", !.calls = {"onConnected"}]

\* onRead; parse is what the parser makes of the bytes read so far.
onRead(c0, ec, parse, resp, s) ==
    LET c == cancelTimer(c0) IN
    IF ~c.open THEN Out(Returned(c), s)
    ELSE IF ec = "aborted" THEN Out(Returned(c), s)
    ELSE IF ec = "eof"
    THEN [Out([setTimer(c) EXCEPT !.phase = "shutdown"], s) EXCEPT
             !.op = "shutdown"]
    ELSE IF ec # "ok" THEN Out(CaClosed(c), s)
    ELSE IF parse = "error" THEN Out(CaClosed(c), s)
    ELSE IF parse = "complete" THEN processResponse(c, resp, s)
    ELSE [Out([setTimer(c) EXCEPT !.phase = "read"], s) EXCEPT !.op = "read"]

\* onWrite; done when the whole request has been written, and then
\* onRead(ok, 0) starts the first read.
onWrite(c0, ec, done, s) ==
    LET c == cancelTimer(c0) IN
    IF ~c.open THEN Out(Returned(c), s)
    ELSE IF ec = "aborted" THEN Out(Returned(c), s)
    ELSE IF ec # "ok" THEN Out(CaClosed(c), s)
    ELSE IF done THEN onRead(c, "ok", "more", NoReply, s)
    ELSE [Out([setTimer(c) EXCEPT !.phase = "write"], s) EXCEPT !.op = "write"]

\* onShutdown: every branch closes.
onShutdown(c0, ec, s) == Out(CaClosed(cancelTimer(c0)), s)

NoAttempt ==
    [tick |-> FALSE, id |-> 0, handler |-> "none", ec |-> "ok",
     open |-> FALSE, resp |-> NoReply, before |-> "closed",
     out |-> Out(<<>>, <<>>)]

\* ------------------------------------------------------ Timer::on_timer

\* A mutant of on_timer: isStopping is not asked.
on_timer_ignoreStopping(ec, stopping) ==
    IF ec # "ok"
    THEN [steps |-> <<>>, rearm |-> FALSE]
    ELSE [steps |-> <<"once_per_second", "sendEndpoints", "autoConnect">>,
          rearm |-> TRUE]

\* Timer::on_timer: what it calls, in order, and whether it waits again.
on_timer(ec, stopping) ==
    IF ec # "ok" \/ stopping
    THEN [steps |-> <<>>, rearm |-> FALSE]
    ELSE [steps |-> <<"once_per_second", "sendEndpoints", "autoConnect">>,
          rearm |-> TRUE]

NoTick ==
    [ran |-> FALSE, ec |-> "ok", stopping |-> FALSE, steps |-> <<>>,
     offered |-> <<>>, connects |-> <<>>, rearmed |-> FALSE]

\* ------------------------------------------------------------------ Init

\* The overlay as constructed.
InitOverlay ==
    /\ next_id_ = 1
    /\ work_ = TRUE
    /\ list_ = {}
    /\ m_peers = {}
    /\ ids_ = {}
    /\ slots = <<>>
    /\ peers = <<>>
    /\ cas = <<>>
    /\ timer = "none"
    /\ stoppable = "running"
    /\ stopQueued = FALSE
    /\ stoppedCount = 0
    /\ dtor = "none"
    /\ asserts = {}
    /\ last = [id |-> 0, in |-> BaseInput, steps |-> <<>>, moved |-> FALSE,
               response |-> NoResponse, keep_alive |-> FALSE, slot |-> NoSlot,
               act |-> "none", returned |-> FALSE, conn |-> NoConn,
               ca |-> NoAttempt, tick |-> NoTick, redirectOn |-> "none"]

\* expire off, every peer hop-aware: the configuration of the runs that route
\* no message.
Init ==
    /\ InitOverlay
    /\ net = NetInit(FALSE, [i \in Ids |-> TRUE])

\* The peers to come are all hop-aware, or all but the first.
AwareChoices == {[i \in Ids |-> i # u] : u \in 0..1}

\* Either configuration of expire, either hop-awareness of the peers to come.
InitRelay ==
    /\ InitOverlay
    /\ net \in {NetInit(e, a) : e \in BOOLEAN, a \in AwareChoices}

\* ------------------------------------------------------ inbound handoff

\* onHandoff up to the construction of the PeerImp (or to its early return).
OnHandoffFrom(inputs, record, maxId) ==
    /\ dtor = "none"
    /\ next_id_ <= maxId
    /\ \E in \in inputs :
        LET r == onHandoff(in, slots)
            id == next_id_
        IN /\ next_id_' = next_id_ + 1
           /\ slots' = r.slots
           /\ peers' = IF r.peer
                       THEN Extend(peers, id,
                                [state |-> "new", slot |-> r.slot,
                                 inbound |-> TRUE, key |-> r.key,
                                 active |-> FALSE, stopCalled |-> FALSE])
                       ELSE peers
           /\ last' = IF record
                       THEN [id |-> id, in |-> in, steps |-> r.steps,
                             moved |-> r.moved, response |-> r.response,
                             keep_alive |-> r.keep_alive, slot |-> r.slot,
                             act |-> r.act, returned |-> ~r.peer,
                             conn |-> last.conn, ca |-> last.ca,
                             tick |-> last.tick, redirectOn |-> r.redirectOn]
                       ELSE last
    /\ UNCHANGED <<net, work_, list_, m_peers, ids_, cas, timer, stoppable,
                   stopQueued, stoppedCount, dtor, asserts>>

\* onHandoff on any request of the model, the call recorded in last.
OnHandoff == OnHandoffFrom(HandoffInputs, TRUE, MaxHandoffId)

\* onHandoff on an accepted and on a refused upgrade, as the children table
\* sees them; the call is not recorded.
OnHandoffCore == OnHandoffFrom(CoreInputs, FALSE, MaxId)

\* onHandoff on the upgrade of a cluster member; the call is not recorded.
OnHandoffCluster == OnHandoffFrom(ClusterInputs, FALSE, MaxHandoffId)

\* The upgrades that give selectPeers up to three peers to choose from.
OnHandoffSelect == OnHandoffFrom(SelectInputs, FALSE, MaxId)

\* A mutant of OnHandoffRegister: the peer is run without m_peers.emplace.
OnHandoffRegister_noEmplace(id) ==
    /\ Alive
    /\ id \in DOMAIN peers
    /\ peers[id].state = "new"
    /\ LET slot == peers[id].slot
           fresh == ~\E e \in m_peers : e[1] = slot
       IN /\ m_peers' = m_peers
          /\ asserts' = IF fresh THEN asserts
                        ELSE asserts \cup {"onHandoff m_peers.emplace"}
    /\ list_' = list_ \cup {<<"peer", id>>}
    /\ peers' = [peers EXCEPT ![id].state = "running"]
    /\ last' = IF last.id = id
               THEN [last EXCEPT !.returned = TRUE,
                                 !.steps = Append(@, "register")]
               ELSE last
    /\ UNCHANGED <<net, next_id_, work_, ids_, slots, cas, timer, stoppable,
                   stopQueued, stoppedCount, dtor>>

\* The locked tail of onHandoff: m_peers.emplace, list_.emplace, peer->run().
OnHandoffRegister(id) ==
    /\ Alive
    /\ id \in DOMAIN peers
    /\ peers[id].state = "new"
    /\ LET slot == peers[id].slot
           fresh == ~\E e \in m_peers : e[1] = slot
       IN /\ m_peers' = IF fresh THEN m_peers \cup {<<slot, id>>} ELSE m_peers
          /\ asserts' = IF fresh THEN asserts
                        ELSE asserts \cup {"onHandoff m_peers.emplace"}
    /\ list_' = list_ \cup {<<"peer", id>>}
    /\ peers' = [peers EXCEPT ![id].state = "running"]
    /\ last' = IF last.id = id
               THEN [last EXCEPT !.returned = TRUE,
                                 !.steps = Append(@, "register")]
               ELSE last
    /\ UNCHANGED <<net, next_id_, work_, ids_, slots, cas, timer, stoppable,
                   stopQueued, stoppedCount, dtor>>

\* ------------------------------------------------------- Peer Sessions

\* OverlayImpl::activate(peer), called by an accepted peer once it runs.
PeerActivate(id) ==
    /\ Alive
    /\ id \in DOMAIN peers
    /\ peers[id].state = "running"
    /\ ~peers[id].active
    /\ ids_' = ids_ \cup {id}
    /\ asserts' = IF id \in ids_ THEN asserts \cup {"activate ids_.emplace"}
                  ELSE asserts
    /\ peers' = [peers EXCEPT ![id].active = TRUE]
    /\ UNCHANGED <<net, next_id_, work_, list_, m_peers, slots, cas, timer,
                   stoppable, stopQueued, stoppedCount, dtor, last>>

\* The remote end closes, or an I/O error closes the session.
PeerFail(id) ==
    /\ Alive
    /\ id \in DOMAIN peers
    /\ peers[id].state = "running"
    /\ peers' = [peers EXCEPT ![id].state = "closing"]
    /\ UNCHANGED <<net, next_id_, work_, list_, m_peers, ids_, slots, cas, timer,
                   stoppable, stopQueued, stoppedCount, dtor, asserts, last>>

\* The closed session drains and is destroyed: onPeerDeactivate, on_closed,
\* remove(slot), then Child::~Child.
PeerDestroy(id) ==
    /\ Alive
    /\ id \in DOMAIN peers
    /\ peers[id].state = "closing"
    /\ LET slot == peers[id].slot
           l2 == list_ \ {<<"peer", id>>}
       IN /\ ids_' = IF peers[id].active THEN ids_ \ {id} ELSE ids_
          /\ slots' = PF_on_closed(slots, slot)
          /\ m_peers' = {e \in m_peers : e[1] # slot}
          /\ asserts' = IF \E e \in m_peers : e[1] = slot THEN asserts
                        ELSE asserts \cup {"remove m_peers.find"}
          /\ list_' = l2
          /\ stoppedCount' = removeChild(l2, stoppable, stoppedCount)
    /\ peers' = Restrict(peers, DOMAIN peers \ {id})
    /\ UNCHANGED <<net, next_id_, work_, cas, timer, stoppable, stopQueued, dtor,
                   last>>

\* ------------------------------------------------------ outbound connect

NewCa(slot, remote) ==
    [phase |-> "connect", open |-> TRUE, slot |-> slot, remote |-> remote,
     stopPosted |-> FALSE, stopCalled |-> FALSE, handedTo |-> 0,
     armed |-> FALSE]

\* A mutant of connect: the over-limit result of the consumer is ignored.
connect_ignoreLimit(remote, over, s) ==
    LET n == PF_new_outbound_slot(s, remote) IN
    [asked |-> TRUE, slots |-> n.slots, slot |-> n.slot]

\* OverlayImpl::connect up to the slot: whether new_outbound_slot was asked,
\* and the slot it gave (none when not asked).
connect(remote, over, s) ==
    IF over
    THEN [asked |-> FALSE, slots |-> s, slot |-> NoSlot]
    ELSE LET n == PF_new_outbound_slot(s, remote) IN
         [asked |-> TRUE, slots |-> n.slots, slot |-> n.slot]

\* A mutant of Connect: the attempt is given next_id_ without the increment.
Connect_noIncrement(remote, over) ==
    /\ asserts' = IF work_ THEN asserts ELSE asserts \cup {"connect work_"}
    /\ LET n == connect(remote, over, slots) IN
       IF n.slot = NoSlot
       THEN UNCHANGED <<next_id_, slots, cas, list_>>
       ELSE /\ next_id_' = next_id_
            /\ slots' = n.slots
            /\ cas' = Extend(cas, next_id_, NewCa(n.slot, remote))
            /\ list_' = list_ \cup {<<"ca", next_id_>>}

\* OverlayImpl::connect: what it does to next_id_, slots, cas, list_, asserts.
Connect(remote, over) ==
    /\ asserts' = IF work_ THEN asserts ELSE asserts \cup {"connect work_"}
    /\ LET n == connect(remote, over, slots) IN
       IF n.slot = NoSlot
       THEN UNCHANGED <<next_id_, slots, cas, list_>>
       ELSE /\ next_id_' = next_id_ + 1
            /\ slots' = n.slots
            /\ cas' = Extend(cas, next_id_, NewCa(n.slot, remote))
            /\ list_' = list_ \cup {<<"ca", next_id_>>}

\* connect called by a client of the overlay, which may do so until stop();
\* the call is recorded in last.conn when record is set.
ConnectCall(record) ==
    /\ dtor = "none"
    /\ work_
    /\ next_id_ <= MaxHandoffId
    /\ \E remote \in Endpoints, over \in BOOLEAN :
         /\ Connect(remote, over)
         /\ last' = IF record
                     THEN LET n == connect(remote, over, slots) IN
                          [last EXCEPT !.conn =
                              [tick |-> ~@.tick, remote |-> remote,
                               over |-> over, asked |-> n.asked,
                               made |-> n.slot # NoSlot]]
                     ELSE last
    /\ UNCHANGED <<net, work_, m_peers, ids_, peers, timer, stoppable, stopQueued,
                   stoppedCount, dtor>>

ExtConnect == ConnectCall(FALSE)

ExtConnectRecorded == ConnectCall(TRUE)

\* ---- the handlers as steps of the overlay

\* The result r of a handler of attempt id takes effect; on a handoff
\* add_active registers the Peer Session.  The call is recorded in last.ca
\* when record is set.
CaApply(id, handler, ec, resp, r, record) ==
    /\ IF r.peer
       THEN LET slot == cas[id].slot
                fresh == ~\E e \in m_peers : e[1] = slot
            IN /\ cas' = [cas EXCEPT ![id] = [r.c EXCEPT !.handedTo = id]]
               /\ peers' = Extend(peers, id,
                              [state |-> "running", slot |-> slot,
                               inbound |-> FALSE, key |-> r.key,
                               active |-> TRUE, stopCalled |-> FALSE])
               /\ m_peers' = IF fresh THEN m_peers \cup {<<slot, id>>}
                             ELSE m_peers
               /\ ids_' = ids_ \cup {id}
               /\ asserts' = asserts
                    \cup (IF fresh THEN {}
                          ELSE {"add_active m_peers.emplace"})
                    \cup (IF id \in ids_ THEN {"add_active ids_.emplace"}
                          ELSE {})
               /\ list_' = list_ \cup {<<"peer", id>>}
       ELSE /\ cas' = [cas EXCEPT ![id] = r.c]
            /\ UNCHANGED <<peers, m_peers, ids_, asserts, list_>>
    /\ slots' = r.slots
    /\ last' = IF record
               THEN [last EXCEPT !.ca =
                        [tick |-> ~@.tick, id |-> id, handler |-> handler,
                         ec |-> ec, open |-> cas[id].open, resp |-> resp,
                         before |-> IF cas[id].slot = NoSlot THEN "none"
                                    ELSE slots[cas[id].slot].state,
                         out |-> r]]
               ELSE last
    /\ UNCHANGED <<net, next_id_, work_, timer, stoppable, stopQueued,
                   stoppedCount, dtor>>

\* The watchdog of an attempt expires.
CaOnTimer(id, record) ==
    /\ Alive
    /\ id \in DOMAIN cas
    /\ cas[id].armed
    /\ CaApply(id, "onTimer", "ok", NoReply, onTimer(cas[id], "ok", slots), record)

\* The connect completes.
CaOnConnect(id, record) ==
    /\ Alive
    /\ id \in DOMAIN cas
    /\ cas[id].phase = "connect"
    /\ \E ec \in Completions(cas[id]) :
         CaApply(id, "onConnect", ec, NoReply, onConnect(cas[id], ec, slots),
                 record)

\* The handshake completes.
CaOnHandshake(id, record) ==
    /\ Alive
    /\ id \in DOMAIN cas
    /\ cas[id].phase = "handshake"
    /\ \E ec \in Completions(cas[id]), dup \in BOOLEAN, sharedOk \in BOOLEAN :
         CaApply(id, "onHandshake", ec, NoReply,
                 onHandshake(cas[id], ec, dup, sharedOk, slots), record)

\* A write completes.
CaOnWrite(id, record) ==
    /\ Alive
    /\ id \in DOMAIN cas
    /\ cas[id].phase = "write"
    /\ \E ec \in Completions(cas[id]), done \in BOOLEAN :
         CaApply(id, "onWrite", ec, NoReply,
                 onWrite(cas[id], ec, done, slots), record)

\* A read completes with an error, an end of file, or short of a whole
\* response.
CaOnReadFail(id, record) ==
    /\ Alive
    /\ id \in DOMAIN cas
    /\ cas[id].phase = "read"
    /\ \E ec \in Completions(cas[id]), parse \in {"more", "error"} :
         CaApply(id, "onRead", ec, NoReply,
                 onRead(cas[id], ec, parse, NoReply, slots), record)

\* The shutdown completes.
CaOnShutdown(id, record) ==
    /\ Alive
    /\ id \in DOMAIN cas
    /\ cas[id].phase = "shutdown"
    /\ \E ec \in Completions(cas[id]) :
         CaApply(id, "onShutdown", ec, NoReply,
                 onShutdown(cas[id], ec, slots), record)

\* A read completes the response: processResponse, and on success add_active.
CaOnResponse(id, responses, record) ==
    /\ Alive
    /\ id \in DOMAIN cas
    /\ cas[id].phase = "read"
    /\ cas[id].open
    /\ \E resp \in responses :
         CaApply(id, "onRead", "ok", resp,
                 onRead(cas[id], "ok", "complete", resp, slots), record)

\* The posted ConnectAttempt::stop runs on the strand.  After a handoff the
\* stream it closes is the one the Peer Session now owns and uses: the access
\* is unsynchronised, and either closes that session's socket or has no effect.
CaStopRun(id) ==
    /\ Alive
    /\ id \in DOMAIN cas
    /\ cas[id].stopPosted
    /\ IF cas[id].handedTo = 0
       THEN /\ cas' = [cas EXCEPT ![id] = [close(@) EXCEPT
                                                !.stopPosted = FALSE]]
            /\ UNCHANGED peers
       ELSE /\ cas' = [cas EXCEPT ![id].stopPosted = FALSE]
            /\ \E hit \in BOOLEAN :
                 LET p == cas[id].handedTo IN
                 peers' = IF hit /\ p \in DOMAIN peers
                               /\ peers[p].state = "running"
                          THEN [peers EXCEPT ![p].state = "closing"]
                          ELSE peers
    /\ UNCHANGED <<net, next_id_, work_, list_, m_peers, ids_, slots, timer,
                   stoppable, stopQueued, stoppedCount, dtor, asserts, last>>

\* A mutant of CaDestroy: the destructor leaves the slot alone.
CaDestroy_noClose(id) ==
    /\ Alive
    /\ id \in DOMAIN cas
    /\ cas[id].phase = "idle"
    /\ ~cas[id].stopPosted
    /\ slots' = slots
    /\ LET l2 == list_ \ {<<"ca", id>>} IN
       /\ list_' = l2
       /\ stoppedCount' = removeChild(l2, stoppable, stoppedCount)
    /\ cas' = Restrict(cas, DOMAIN cas \ {id})
    /\ UNCHANGED <<net, next_id_, work_, m_peers, ids_, peers, timer, stoppable,
                   stopQueued, dtor, asserts, last>>

\* ~ConnectAttempt then Child::~Child, once no handler holds the attempt.
CaDestroy(id) ==
    /\ Alive
    /\ id \in DOMAIN cas
    /\ cas[id].phase = "idle"
    /\ ~cas[id].stopPosted
    /\ slots' = IF cas[id].slot # NoSlot THEN PF_on_closed(slots, cas[id].slot)
                ELSE slots
    /\ LET l2 == list_ \ {<<"ca", id>>} IN
       /\ list_' = l2
       /\ stoppedCount' = removeChild(l2, stoppable, stoppedCount)
    /\ cas' = Restrict(cas, DOMAIN cas \ {id})
    /\ UNCHANGED <<net, next_id_, work_, m_peers, ids_, peers, timer, stoppable,
                   stopQueued, dtor, asserts, last>>

\* ----------------------------------------------------------------- Timer

\* autoconnect: nothing, or one endpoint an outbound slot could be opened for.
PF_autoconnect(s) ==
    {<<>>} \cup {<<e>> : e \in {x \in Endpoints : ~PF_outbound_refused(s, x)}}

\* OverlayImpl::onStart: the Timer is created, registered and run.
OnStart ==
    /\ dtor = "none"
    /\ stoppable = "running"
    /\ timer = "none"
    /\ timer' = "waiting"
    /\ list_' = list_ \cup {TimerChild}
    /\ UNCHANGED <<net, next_id_, work_, m_peers, ids_, slots, peers, cas,
                   stoppable, stopQueued, stoppedCount, dtor, asserts, last>>

\* The second elapses: the wait completes without error.
TimerExpire ==
    /\ Alive
    /\ timer = "waiting"
    /\ timer' = "fired"
    /\ UNCHANGED <<net, next_id_, work_, list_, m_peers, ids_, slots, peers, cas,
                   stoppable, stopQueued, stoppedCount, dtor, asserts, last>>

\* Timer::on_timer begins on strand_: with an error or while stopping it
\* returns, and the Timer, no longer referenced, is destroyed; otherwise
\* once_per_second and sendEndpoints run.  The call is recorded in last.tick
\* when record is set.
OnTimerBegin(record) ==
    /\ Alive
    /\ timer \in {"fired", "aborted"}
    /\ LET ec == IF timer = "aborted" THEN "aborted" ELSE "ok"
           r == on_timer(ec, isStopping(stoppable))
       IN /\ IF ~r.rearm
             THEN LET l2 == list_ \ {TimerChild} IN
                  /\ timer' = "dead"
                  /\ list_' = l2
                  /\ stoppedCount' = removeChild(l2, stoppable, stoppedCount)
             ELSE /\ timer' = "ticking"
                  /\ UNCHANGED <<list_, stoppedCount>>
          /\ last' = IF record
                     THEN [last EXCEPT !.tick =
                              [ran |-> TRUE, ec |-> ec,
                               stopping |-> isStopping(stoppable),
                               steps |-> IF r.rearm THEN SubSeq(r.steps, 1, 2)
                                         ELSE r.steps,
                               offered |-> <<>>, connects |-> <<>>,
                               rearmed |-> FALSE]]
                     ELSE last
    /\ UNCHANGED <<net, next_id_, work_, m_peers, ids_, slots, peers, cas,
                   stoppable, stopQueued, dtor, asserts>>

\* The rest of on_timer: autoConnect calls connect for each endpoint the
\* PeerFinder gives, and the timer is rearmed.
OnTimerFinish(record) ==
    /\ Alive
    /\ timer = "ticking"
    /\ timer' = "waiting"
    /\ \E addrs \in IF next_id_ > MaxId THEN {<<>>} ELSE PF_autoconnect(slots) :
         /\ IF addrs = <<>>
            THEN UNCHANGED <<next_id_, slots, cas, list_, asserts>>
            ELSE \E over \in BOOLEAN : Connect(addrs[1], over)
         /\ last' = IF record
                    THEN [last EXCEPT
                            !.tick.steps = on_timer("ok", FALSE).steps,
                            !.tick.offered = addrs,
                            !.tick.connects = addrs,
                            !.tick.rearmed = on_timer("ok", FALSE).rearm]
                    ELSE last
    /\ UNCHANGED <<net, work_, m_peers, ids_, peers, stoppable, stopQueued,
                   stoppedCount, dtor>>

\* -------------------------------------------------------------- Stoppable

\* Stoppable::stop reaches the overlay: isStopping becomes true and onStop
\* dispatches OverlayImpl::stop on strand_.
StoppableStop ==
    /\ dtor = "none"
    /\ stoppable = "running"
    /\ timer # "none"
    /\ stoppable' = "stopping"
    /\ stopQueued' = TRUE
    /\ UNCHANGED <<net, next_id_, work_, list_, m_peers, ids_, slots, peers, cas,
                   timer, stoppedCount, dtor, asserts, last>>

\* OverlayImpl::stop runs on strand_, never inside on_timer.
StrandStop ==
    /\ Alive
    /\ stopQueued
    /\ timer # "ticking"
    /\ stopQueued' = FALSE
    /\ OverlayStop
    /\ UNCHANGED <<net, next_id_, list_, m_peers, ids_, slots, stoppable,
                   stoppedCount, dtor, asserts, last>>

\* The Stoppable children of the overlay have stopped.
SetChildrenStopped ==
    /\ dtor = "none"
    /\ stoppable = "stopping"
    /\ stoppable' = "childrenStopped"
    /\ UNCHANGED <<net, next_id_, work_, list_, m_peers, ids_, slots, peers, cas,
                   timer, stopQueued, stoppedCount, dtor, asserts, last>>

\* OverlayImpl::onChildrenStopped.
OnChildrenStopped ==
    /\ dtor = "none"
    /\ stoppable = "childrenStopped"
    /\ stoppable' = "notified"
    /\ stoppedCount' = checkStopped(list_, "notified", stoppedCount)
    /\ UNCHANGED <<net, next_id_, work_, list_, m_peers, ids_, slots, peers, cas,
                   timer, stopQueued, dtor, asserts, last>>

\* ------------------------------------------------------------ destructor

\* ~OverlayImpl calls stop().
DtorStop ==
    /\ dtor = "none"
    /\ dtor' = "waiting"
    /\ OverlayStop
    /\ UNCHANGED <<net, next_id_, list_, m_peers, ids_, slots, stoppable,
                   stopQueued, stoppedCount, asserts, last>>

\* cond_.wait(lock, list_.empty()): returns when the predicate holds, blocks
\* otherwise.  Nothing notifies cond_.
DtorWait ==
    /\ dtor = "waiting"
    /\ dtor' = IF list_ = {} THEN "returned" ELSE "blocked"
    /\ UNCHANGED <<net, next_id_, work_, list_, m_peers, ids_, slots, peers, cas,
                   timer, stoppable, stopQueued, stoppedCount, asserts, last>>

\* A spurious wakeup of the wait makes it test the predicate again.
DtorSpuriousWakeup ==
    /\ dtor = "blocked"
    /\ dtor' = "waiting"
    /\ UNCHANGED <<net, next_id_, work_, list_, m_peers, ids_, slots, peers, cas,
                   timer, stoppable, stopQueued, stoppedCount, asserts, last>>

\* --------------------------------------------------------- message routing

NetUnchanged ==
    UNCHANGED <<next_id_, work_, list_, m_peers, ids_, slots, peers, cas,
                timer, stoppable, stopQueued, stoppedCount, dtor, asserts, last>>

\* An active peer delivers content it has not delivered before: its session
\* records it in the HashRouter as having seen that content.
PeerSaw(id, uid) ==
    /\ dtor = "none"
    /\ id \in ids_
    /\ id \notin net.router[uid].peers
    /\ net' = [net EXCEPT !.router = addSuppressionPeer(@, uid, id).router]
    /\ NetUnchanged

\* relay is called, for a proposal or for a validation.
Relay ==
    /\ dtor = "none"
    /\ \E m \in Msgs, uid \in Uids :
         LET r == relay(m, uid, net.router, ids_, net.aware) IN
         net' = [net EXCEPT
                   !.router = r.router,
                   !.sent[uid] = @ \cup r.to,
                   !.twice = @ \cup {<<uid, p>> : p \in r.to \cap net.sent[uid]},
                   !.call = [kind |-> "relay", uid |-> uid, m |-> m,
                             wire |-> r.wire, to |-> r.to,
                             swapped |-> r.swapped, ok |-> r.ok,
                             skip |-> net.router[uid].peers, active |-> ids_,
                             items |-> <<>>, history |-> FALSE,
                             from |-> 0, sel |-> NoSel]]
    /\ NetUnchanged

\* send is called, for a proposal or for a validation.
Send ==
    /\ dtor = "none"
    /\ \E m \in Msgs :
         LET r == send(m, net.expire, ids_, net.aware) IN
         net' = [net EXCEPT
                   !.call = [kind |-> "send", uid |-> "u1", m |-> m,
                             wire |-> r.wire, to |-> r.to, swapped |-> FALSE,
                             ok |-> FALSE, skip |-> {}, active |-> ids_,
                             items |-> <<>>, history |-> FALSE,
                             from |-> 0, sel |-> NoSel]]
    /\ NetUnchanged

\* A TMManifests message of an active peer reaches onManifests.
OnManifests ==
    /\ dtor = "none"
    /\ \E from \in ids_, list \in ManifestLists, history \in BOOLEAN :
         LET r == onManifests(list, history, from, net.router, ids_) IN
         net' = [net EXCEPT
                   !.router = r.router,
                   !.call = [kind |-> "manifests", uid |-> "u1", m |-> NoMsg,
                             wire |-> NoMsg, to |-> {}, swapped |-> FALSE,
                             ok |-> FALSE, skip |-> {}, active |-> ids_,
                             items |-> r.items, history |-> history,
                             from |-> from, sel |-> NoSel]]
    /\ NetUnchanged

\* selectPeers is called with a set that holds at most one of the active
\* peers.
SelectPeers ==
    /\ dtor = "none"
    /\ \E score \in [ids_ -> Scores], limit \in Limits,
          set \in {{}} \cup {{p} : p \in ids_} :
         \E sorted \in std_sort(enumerate(for_each(ids_)), score) :
            LET r == selectPeers(sorted, set, limit) IN
            net' = [net EXCEPT
                      !.call = [NoCall EXCEPT
                                  !.kind = "select", !.active = ids_,
                                  !.sel = [order |-> enumerate(for_each(ids_)),
                                           score |-> score, limit |-> limit,
                                           before |-> set, sorted |-> sorted,
                                           set |-> r.set,
                                           accepted |-> r.accepted,
                                           inserted |-> r.inserted]]]
    /\ NetUnchanged

\* ---------------------------------------------------- beast operations

\* async_write of a message: the write_op is constructed and its constructor
\* calls operator() with no error and again false.
WriteStart ==
    /\ dtor = "none"
    /\ net.wop.pending = "none"
    /\ \E chunked \in BOOLEAN, closing \in BOOLEAN, pieces \in 1..MaxPieces,
          initEc \in {"ok", "error"}, w \in WriterResults :
         net' = [net EXCEPT !.wop =
                    write_op([NoWriteOp EXCEPT
                                 !.started = TRUE, !.chunked = chunked,
                                 !.close = closing, !.pieces = pieces,
                                 !.left = pieces],
                             "ok", initEc, w)]
    /\ NetUnchanged

\* The operation is called again: by the completion of the write it started
\* (with its error code, again true), by the io_service running the handler
\* it posted, or by the body writer calling resume (again false, cont reset).
WriteContinue ==
    /\ dtor = "none"
    /\ net.wop.pending # "none"
    /\ LET d == net.wop
           idle == [d EXCEPT !.pending = "none"]
       IN \E ec \in {"ok", "error"},
             w \in IF d.susp THEN WriterResults \ {"suspend"}
                   ELSE WriterResults :
            net' = [net EXCEPT !.wop =
                      CASE d.pending = "write" ->
                             write_op([idle EXCEPT !.cont = TRUE], ec, "ok", w)
                        [] d.pending = "post0" ->
                             write_op(idle, d.pend_ec, "ok", w)
                        [] d.pending = "post1" ->
                             write_op([idle EXCEPT !.cont = TRUE], d.pend_ec,
                                      "ok", w)
                        [] OTHER ->
                             write_op([idle EXCEPT !.cont = FALSE], "ok", "ok",
                                      w)]
    /\ NetUnchanged

\* An operation is parked in an invokable that is not engaged.
InvEmplace(i) ==
    /\ dtor = "none"
    /\ ~net.inv.b_[i]
    /\ net.inv.next <= MaxParked
    /\ net' = [net EXCEPT !.inv = [emplace(@, i, @.next) EXCEPT !.next = @ + 1]]
    /\ NetUnchanged

\* An invokable is move-assigned to another that is not engaged.
InvAssign(i, j) ==
    /\ dtor = "none"
    /\ i # j
    /\ ~net.inv.b_[i]
    /\ net' = [net EXCEPT !.inv = move_assign(@, i, j)]
    /\ NetUnchanged

\* maybe_invoke on an invokable, engaged or not; the operation it runs parks
\* a new one, takes over the other invokable, or does neither.
InvMaybeInvoke(i) ==
    /\ dtor = "none"
    /\ \E what \in {"emplace", "assign", "nothing"}, j \in {1, 2} \ {i} :
         /\ what = "emplace" => net.inv.next <= MaxParked
         /\ net' = [net EXCEPT !.inv = maybe_invoke(@, i, what, j)]
    /\ NetUnchanged

\* ------------------------------------------------------------------ Next

Next ==
    \/ OnHandoffCore
    \/ \E id \in Ids : OnHandoffRegister(id)
    \/ \E id \in Ids : PeerActivate(id)
    \/ \E id \in Ids : PeerFail(id)
    \/ \E id \in Ids : PeerDestroy(id)
    \/ \E id \in Ids : CaOnConnect(id, FALSE)
    \/ \E id \in Ids : CaOnHandshake(id, FALSE)
    \/ \E id \in Ids : CaOnWrite(id, FALSE)
    \/ \E id \in Ids : CaOnReadFail(id, FALSE)
    \/ \E id \in Ids : CaOnShutdown(id, FALSE)
    \/ \E id \in Ids : CaOnResponse(id, CaResponses, FALSE)
    \/ \E id \in Ids : CaStopRun(id)
    \/ \E id \in Ids : CaDestroy(id)
    \/ OnStart
    \/ TimerExpire
    \/ OnTimerBegin(FALSE)
    \/ OnTimerFinish(FALSE)
    \/ StoppableStop
    \/ StrandStop
    \/ SetChildrenStopped
    \/ OnChildrenStopped
    \/ DtorStop
    \/ DtorWait
    \/ DtorSpuriousWakeup

Spec == Init /\ [][Next]_vars

\* Inbound admission alone: every request of the model, the sessions it
\* creates, and outbound attempts competing for keys and slots.
NextHandoff ==
    \/ OnHandoff
    \/ \E id \in Ids : OnHandoffRegister(id)
    \/ \E id \in Ids : PeerActivate(id)
    \/ \E id \in Ids : PeerFail(id)
    \/ \E id \in Ids : PeerDestroy(id)
    \/ ExtConnect
    \/ \E id \in Ids : CaOnConnect(id, FALSE)
    \/ \E id \in Ids : CaOnHandshake(id, FALSE)
    \/ \E id \in Ids : CaOnWrite(id, FALSE)
    \/ \E id \in Ids : CaOnReadFail(id, FALSE)
    \/ \E id \in Ids : CaOnShutdown(id, FALSE)
    \/ \E id \in Ids : CaOnResponse(id, CaResponses, FALSE)
    \/ \E id \in Ids : CaDestroy(id)

SpecHandoff == Init /\ [][NextHandoff]_vars

\* Outbound connecting alone: connect calls, each recorded, the attempts they
\* start and the sessions those become.
NextConnect ==
    \/ ExtConnectRecorded
    \/ \E id \in Ids : PeerFail(id)
    \/ \E id \in Ids : PeerDestroy(id)
    \/ \E id \in Ids : CaOnConnect(id, FALSE)
    \/ \E id \in Ids : CaOnHandshake(id, FALSE)
    \/ \E id \in Ids : CaOnWrite(id, FALSE)
    \/ \E id \in Ids : CaOnReadFail(id, FALSE)
    \/ \E id \in Ids : CaOnShutdown(id, FALSE)
    \/ \E id \in Ids : CaOnResponse(id, CaResponses, FALSE)
    \/ \E id \in Ids : CaDestroy(id)

SpecConnect == Init /\ [][NextConnect]_vars

\* Message routing: sessions come and go, peers deliver content, the
\* application relays and sends.
NextRelay ==
    \/ OnHandoffCluster
    \/ \E id \in Ids : OnHandoffRegister(id)
    \/ \E id \in Ids : PeerActivate(id)
    \/ \E id \in Ids : PeerFail(id)
    \/ \E id \in Ids : PeerDestroy(id)
    \/ \E id \in Ids, uid \in Uids : PeerSaw(id, uid)
    \/ Relay
    \/ Send

SpecRelay == InitRelay /\ [][NextRelay]_vars

\* Manifest traffic: sessions come and go, active peers deliver manifests.
NextManifests ==
    \/ OnHandoffCluster
    \/ \E id \in Ids : OnHandoffRegister(id)
    \/ \E id \in Ids : PeerActivate(id)
    \/ \E id \in Ids : PeerFail(id)
    \/ \E id \in Ids : PeerDestroy(id)
    \/ OnManifests

SpecManifests == Init /\ [][NextManifests]_vars

\* Connect Attempts in full: every completion and every response, each handler
\* call recorded, the watchdog, stop() of the overlay, the sessions the
\* attempts become, and inbound sessions whose keys the attempts can meet.
NextAttempt ==
    \/ ExtConnect
    \/ OnHandoffCluster
    \/ \E id \in Ids : OnHandoffRegister(id)
    \/ \E id \in Ids : CaOnTimer(id, TRUE)
    \/ \E id \in Ids : CaOnConnect(id, TRUE)
    \/ \E id \in Ids : CaOnHandshake(id, TRUE)
    \/ \E id \in Ids : CaOnWrite(id, TRUE)
    \/ \E id \in Ids : CaOnReadFail(id, TRUE)
    \/ \E id \in Ids : CaOnShutdown(id, TRUE)
    \/ \E id \in Ids : CaOnResponse(id, AttemptResponses, TRUE)
    \/ \E id \in Ids : CaStopRun(id)
    \/ \E id \in Ids : CaDestroy(id)
    \/ \E id \in Ids : PeerFail(id)
    \/ \E id \in Ids : PeerDestroy(id)
    \/ OnStart
    \/ StoppableStop
    \/ StrandStop

SpecAttempt == Init /\ [][NextAttempt]_vars

\* The Timer: ticks, each on_timer call recorded, the attempts autoConnect
\* starts, and stop() of the overlay.
NextTimer ==
    \/ OnStart
    \/ TimerExpire
    \/ OnTimerBegin(TRUE)
    \/ OnTimerFinish(TRUE)
    \/ StoppableStop
    \/ StrandStop
    \/ \E id \in Ids : CaOnConnect(id, FALSE)
    \/ \E id \in Ids : CaOnHandshake(id, FALSE)
    \/ \E id \in Ids : CaOnWrite(id, FALSE)
    \/ \E id \in Ids : CaOnReadFail(id, FALSE)
    \/ \E id \in Ids : CaOnShutdown(id, FALSE)
    \/ \E id \in Ids : CaOnResponse(id, CaResponses, FALSE)
    \/ \E id \in Ids : CaStopRun(id)
    \/ \E id \in Ids : CaDestroy(id)
    \/ \E id \in Ids : PeerFail(id)
    \/ \E id \in Ids : PeerDestroy(id)

SpecTimer == Init /\ [][NextTimer]_vars

\* Peer selection: sessions are set up, selectPeers is called.
NextSelect ==
    \/ OnHandoffSelect
    \/ \E id \in Ids : OnHandoffRegister(id)
    \/ \E id \in Ids : PeerActivate(id)
    \/ SelectPeers

SpecSelect == Init /\ [][NextSelect]_vars

\* The operations of beast on their own: HTTP writes, and operations parked
\* in invokables.
NextBeast ==
    \/ WriteStart
    \/ WriteContinue
    \/ \E i \in {1, 2} : InvEmplace(i)
    \/ \E i \in {1, 2}, j \in {1, 2} : InvAssign(i, j)
    \/ \E i \in {1, 2} : InvMaybeInvoke(i)

SpecBeast == Init /\ [][NextBeast]_vars

\* ================================================================ claims

\* Internal steps: the ones the io_service, the strands and the Stoppable
\* parent take without anything arriving from outside.
ProgressNext ==
    \/ \E id \in Ids : OnHandoffRegister(id)
    \/ \E id \in Ids : PeerActivate(id)
    \/ \E id \in Ids : PeerDestroy(id)
    \/ \E id \in Ids : CaOnConnect(id, FALSE)
    \/ \E id \in Ids : CaOnHandshake(id, FALSE)
    \/ \E id \in Ids : CaOnWrite(id, FALSE)
    \/ \E id \in Ids : CaOnReadFail(id, FALSE)
    \/ \E id \in Ids : CaOnShutdown(id, FALSE)
    \/ \E id \in Ids : CaOnResponse(id, CaResponses, FALSE)
    \/ \E id \in Ids : CaStopRun(id)
    \/ \E id \in Ids : CaDestroy(id)
    \/ TimerExpire
    \/ OnTimerBegin(FALSE)
    \/ OnTimerFinish(FALSE)
    \/ StrandStop
    \/ SetChildrenStopped
    \/ OnChildrenStopped
    \/ DtorWait

\* No child has an asynchronous operation outstanding.
NoOutstanding ==
    /\ timer \in {"none", "dead"}
    /\ DOMAIN cas = {}
    /\ \A id \in DOMAIN peers : peers[id].state = "new"

\* C1: graceful shutdown terminates.  Once stop() has been called, a state in
\* which no internal step is left to take has an empty list_ and no
\* destructor still blocked in its wait.
C1_ShutdownTerminates ==
    (~work_ /\ ~ENABLED ProgressNext) => (list_ = {} /\ dtor # "blocked")

\* C2 as claimed: at the moment stop() returns, list_ is empty and no child
\* has an asynchronous operation outstanding.
C2_StopReturnsEmpty ==
    [][(work_ /\ ~work_') => (list_' = {} /\ NoOutstanding')]_vars

\* C2 as amended: at the moment the overlay signals stopped(), list_ is empty
\* and no child has an asynchronous operation outstanding.
C2_StoppedSignalEmpty ==
    [][(stoppedCount' > stoppedCount) => (list_' = {} /\ NoOutstanding')]_vars

C2_Witness ==
    stoppedCount >= 1 /\ ~work_ /\ list_ = {} /\ timer = "dead"

\* C3: no child escapes shutdown.  Once stop() has executed on strand_ (the
\* destructor left aside), every Peer Session and Connect Attempt in list_
\* has had its stop() invoked.
C3_NoChildEscapesStop ==
    (~work_ /\ dtor = "none") =>
        /\ \A id \in DOMAIN peers :
             <<"peer", id>> \in list_ => peers[id].stopCalled
        /\ \A id \in DOMAIN cas :
             <<"ca", id>> \in list_ => cas[id].stopCalled

\* C4: once the overlay is stopping and onChildrenStopped has run, an empty
\* list_ means stopped() has been signalled, whichever of the last removal
\* and the notification came first.
C4_StoppedWhenEmpty ==
    (stoppable = "notified" /\ list_ = {}) => stoppedCount >= 1

C4_Witness ==
    stoppable = "notified" /\ list_ = {} /\ stoppedCount = 1 /\ timer = "dead"
        /\ dtor = "none"

\* C5: a slot obtained by onHandoff that no Peer Session ends up owning is
\* closed when onHandoff has returned.
C5_RejectedSlotReleased ==
    (last.id # 0 /\ last.returned /\ last.slot # NoSlot
        /\ last.act # "success")
    => slots[last.slot].state = "closed"

HandoffOrder ==
    <<"crawl", "upgrade", "local", "resource", "slot", "connectas", "hello",
      "shared", "verify", "activate">>

\* The headers of the model with an element equal to "peer" ignoring case.
PeerHeaders ==
    { <<"P", "e", "e", "r">>,
      <<"p", "e", "e", "r">>,
      <<"P", "E", "E", "R">>,
      <<"l", "e", "a", "f", ",", " ", "p", "E", "e", "R">> }

\* The step at which the recorded call has to end, from its inputs and from
\* what new_inbound_slot gave it.
LastStep(l) ==
    IF l.in.url = "/crawl" THEN 1
    ELSE IF ~(l.in.upgrade /\ l.in.versions > 0) THEN 2
    ELSE IF ~l.in.localOk THEN 3
    ELSE IF l.in.overLimit THEN 4
    ELSE IF l.slot = NoSlot THEN 5
    ELSE IF l.in.connectAs \notin PeerHeaders THEN 6
    ELSE IF ~l.in.helloOk THEN 7
    ELSE IF ~l.in.sharedOk THEN 8
    ELSE IF ~l.in.sigOk \/ l.in.helloKey = OwnKey THEN 9
    ELSE 10

IsOrderStep(x) == \E i \in 1..Len(HandoffOrder) : HandoffOrder[i] = x

\* C6: onHandoff runs its steps in the stated order and stops at the first
\* that fails; no slot is requested for a /crawl request or an over-limit
\* client, and activate is not called when verification failed.
C6_HandoffOrder ==
    last.id # 0 =>
        /\ SelectSeq(last.steps, IsOrderStep)
             = SubSeq(HandoffOrder, 1, LastStep(last))
        /\ (last.in.url = "/crawl" \/ last.in.overLimit) => last.slot = NoSlot
        /\ (~last.in.sigOk \/ last.in.helloKey = OwnKey) => last.act = "none"

C6_Witness ==
    last.id # 0 /\ last.in.overLimit /\ last.in.url # "/crawl"
        /\ Len(last.steps) = 4

\* C7: when activate does not return success, onHandoff creates no Peer
\* Session, keeps moved false, and answers 503 with the list of
\* redirect(slot) as peer-ips and the client's address as Remote-Address.
C7_ActivateFailureRedirects ==
    [][(last'.id # last.id /\ last'.act \in {"full", "duplicate"}) =>
          /\ ~last'.moved
          /\ last'.response.status = 503
          /\ last'.response.peer_ips = PF_redirect(slots', last'.slot)
          /\ last'.response.remote_address = last'.in.remote
          /\ peers' = peers
          /\ list_' = list_ /\ m_peers' = m_peers]_vars

C7_Witness ==
    last.id # 0 /\ last.act = "full" /\ last.response.status = 503
        /\ Len(last.response.peer_ips) = 1

\* C8: when new_inbound_slot returns null, onHandoff writes no response,
\* creates no Peer Session, and its result is not the one of a request that
\* is not ours: the caller drops the connection.
C8_NullSlotDropped ==
    (last.id # 0 /\ Len(last.steps) = 5 /\ last.slot = NoSlot) =>
        /\ last.response = NoResponse
        /\ last.id \notin DOMAIN peers
        /\ (last.moved \/ last.response # NoResponse)

VerificationFailed(l) ==
    /\ Len(l.steps) >= 7
    /\ l.steps[7] = "hello"
    /\ \/ ~l.in.helloOk
       \/ ~l.in.sharedOk
       \/ ~l.in.sigOk
       \/ l.in.helloKey = OwnKey

\* C9: when hello parsing, the shared value or the verification fails, no
\* response is produced, activate is not called, and no Peer Session is
\* created or registered.
C9_VerificationFailureSilent ==
    (last.id # 0 /\ VerificationFailed(last)) =>
        /\ last.response = NoResponse
        /\ last.act = "none"
        /\ \A i \in 1..Len(last.steps) : last.steps[i] # "activate"
        /\ last.id \notin DOMAIN peers
        /\ <<"peer", last.id>> \notin list_
        /\ last.id \notin ids_
        /\ ~\E e \in m_peers : e[1] = last.slot \/ e[2] = last.id

C9_Witness ==
    last.id # 0 /\ VerificationFailed(last) /\ last.in.helloKey = OwnKey
        /\ Len(last.steps) = 9

\* C10: a request whose Connect-As has no element equal to "peer" ignoring
\* case gets the 503 redirect and is not upgraded; one that has such an
\* element goes on to the handshake verification.
C10_ConnectAs ==
    (last.id # 0 /\ Len(last.steps) >= 6) =>
        IF last.in.connectAs \in PeerHeaders
        THEN Len(last.steps) >= 7 /\ last.steps[7] = "hello"
        ELSE /\ Len(last.steps) = 6
             /\ last.response.status = 503
             /\ ~last.moved
             /\ last.id \notin DOMAIN peers

C10_Witness ==
    /\ last.id # 0
    /\ last.in.connectAs = <<"l", "e", "a", "f", ",", " ", "p", "E", "e", "R">>
    /\ Len(last.steps) >= 7

\* C11: m_peers maps each slot to at most one Peer Session; every session
\* that has been run is registered under exactly its own slot until its
\* remove(slot); the emplace assertions of onHandoff and add_active and the
\* lookup assertion of remove(slot) do not fail.
C11_SlotRegistry ==
    /\ \A e1 \in m_peers : \A e2 \in m_peers : e1[1] = e2[1] => e1 = e2
    /\ \A id \in DOMAIN peers :
         peers[id].state \in {"running", "closing"}
            => <<peers[id].slot, id>> \in m_peers
    /\ \A e \in m_peers : e[2] \in DOMAIN peers /\ peers[e[2]].slot = e[1]
    /\ asserts \cap {"onHandoff m_peers.emplace", "add_active m_peers.emplace",
                     "remove m_peers.find"} = {}

\* An outbound session registered by add_active after an earlier session
\* was removed with its slot.
C11_Witness ==
    /\ \E e \in m_peers : ~peers[e[2]].inbound
    /\ \E i \in 1..Len(slots) : slots[i].state = "closed" /\ i \notin {e[1] : e \in m_peers}
    /\ Cardinality(m_peers) = 1

\* C12: no two live Peer Sessions share a NodeKey, and every live session
\* holds a slot that activate made active for its key.
C12_NodeKeyUnique ==
    /\ \A a \in DOMAIN peers : \A b \in DOMAIN peers :
         a # b => peers[a].key # peers[b].key
    /\ \A id \in DOMAIN peers :
         /\ slots[peers[id].slot].state = "active"
         /\ slots[peers[id].slot].key = peers[id].key

\* An inbound upgrade refused as a duplicate of a live session's key.
C12_Witness ==
    /\ last.act = "duplicate"
    /\ \E id \in DOMAIN peers : peers[id].key = last.in.helloKey

\* C13: a connect call that finds the consumer over its limit, or gets no
\* outbound slot, creates no Connect Attempt and leaves list_, the slots and
\* next_id_ as they were; when over the limit no slot is asked for.
C13_ConnectIgnored ==
    [][(last'.conn.tick # last.conn.tick
            /\ (last'.conn.over \/ ~last'.conn.made)) =>
          /\ cas' = cas
          /\ list_' = list_
          /\ slots' = slots
          /\ next_id_' = next_id_
          /\ peers' = peers
          /\ (last'.conn.over => ~last'.conn.asked)]_vars

\* An over-limit connect to an address a slot could have been opened for, and
\* nothing was created.
C13_Witness ==
    /\ last.conn.tick
    /\ last.conn.over
    /\ ~PF_outbound_refused(slots, last.conn.remote)
    /\ cas = <<>>

\* The peers a relay call has to reach, from what the call found: the active
\* peers that had not seen the content, hop-aware if the message has hops.
RelayTargets(c) ==
    {p \in c.active \ c.skip : c.m.has_hops => net.aware[p]}

\* C14: a proposal or validation relayed with a hop count of maxTTL or more is
\* sent to no peer.
C14_TTLDrop ==
    (net.call.kind = "relay" /\ net.call.m.has_hops
        /\ net.call.m.hops >= maxTTL)
    => net.call.to = {}

\* A relay dropped for its hop count alone: the content was never relayed and
\* an active hop-aware peer had not seen it.
C14_Witness ==
    /\ net.call.kind = "relay"
    /\ net.call.m.has_hops
    /\ net.call.m.hops = maxTTL
    /\ ~net.router[net.call.uid].relayed
    /\ RelayTargets(net.call) # {}

\* C15: relay sends a given uid to a peer at most once, and once the relayed
\* flag of a uid is set a relay call for it sends to nobody.
C15_RelayOnce ==
    [][/\ net'.twice = {}
       /\ \A u \in Uids :
            net.router[u].relayed => net'.sent[u] = net.sent[u]]_vars

\* A second relay call for a uid already fanned out, with an active peer that
\* was not sent it the first time.
C15_Witness ==
    /\ net.call.kind = "relay"
    /\ net.call.swapped
    /\ ~net.call.ok
    /\ net.sent[net.call.uid] # {}
    /\ RelayTargets(net.call) \ net.sent[net.call.uid] # {}

\* C16: when relay fans out, it sends to exactly the active peers that are not
\* in the skip set and that are hop-aware if the message has a hop count.
C16_RelayFanOut ==
    (net.call.kind = "relay" /\ net.call.swapped /\ net.call.ok)
    => net.call.to = RelayTargets(net.call)

\* A fan-out that reaches one peer and skips another that had seen the content.
C16_Witness ==
    /\ net.call.kind = "relay"
    /\ net.call.ok
    /\ net.call.to # {}
    /\ net.call.skip \cap net.call.active # {}

\* C17: with expire set, send lets a message leave with hop count zero,
\* whatever the caller gave.
C17_SendZeroesHops ==
    (net.call.kind = "send" /\ net.expire)
    => (net.call.wire.has_hops /\ net.call.wire.hops = 0)

C17_Witness ==
    /\ net.call.kind = "send"
    /\ net.expire
    /\ net.call.m.has_hops
    /\ net.call.m.hops = maxTTL
    /\ net.call.to # {}

\* C18: with expire set, a message that relay forwards carries no hop count
\* (none, or zero).
C18_RelayStripsHops ==
    (net.call.kind = "relay" /\ net.expire /\ net.call.to # {})
    => (~net.call.wire.has_hops \/ net.call.wire.hops = 0)

\* C19: a manifest is persisted if and only if applyManifest answered
\* accepted for it; an accepted manifest of a message that is not history is
\* re-announced to exactly the active peers outside the skip set of the
\* HashRouter; a stale or invalid one is not persisted, published or relayed.
C19_ManifestAccepted ==
    net.call.kind = "manifests" =>
        \A i \in 1..Len(net.call.items) :
            LET it == net.call.items[i] IN
            /\ it.persisted <=> (it.applied /\ it.disp = "accepted")
            /\ (it.applied /\ it.disp = "accepted" /\ ~net.call.history)
                  => /\ net.call.from \in it.skip
                     /\ it.to = net.call.active \ it.skip
            /\ it.disp \in {"stale", "invalid"}
                  => (~it.persisted /\ ~it.published /\ it.to = {})

\* An accepted manifest re-announced to the other active peer, in a message
\* that also carried a stale one.
C19_Witness ==
    /\ net.call.kind = "manifests"
    /\ ~net.call.history
    /\ Len(net.call.items) = 2
    /\ net.call.items[1].applied /\ net.call.items[1].disp = "stale"
    /\ net.call.items[2].persisted /\ net.call.items[2].to # {}

\* C20: an untrusted manifest is published and is neither persisted nor
\* relayed to any peer.
C20_ManifestUntrusted ==
    net.call.kind = "manifests" =>
        \A i \in 1..Len(net.call.items) :
            LET it == net.call.items[i] IN
            (it.applied /\ it.disp = "untrusted")
               => (it.published /\ ~it.persisted /\ it.to = {})

\* An untrusted manifest applied while another active peer could have been
\* sent it.
C20_Witness ==
    /\ net.call.kind = "manifests"
    /\ ~net.call.history
    /\ \E i \in 1..Len(net.call.items) :
         /\ net.call.items[i].applied
         /\ net.call.items[i].disp = "untrusted"
    /\ net.call.active \ {net.call.from} # {}

\* C21: no manifest of a message marked history is sent to any peer by
\* onManifests, accepted or not; each one that reaches applyManifest is
\* applied (published and persisted by its disposition) and marked relayed in
\* the HashRouter.
C21_HistoryNotRelayed ==
    (net.call.kind = "manifests" /\ net.call.history) =>
        \A i \in 1..Len(net.call.items) :
            LET it == net.call.items[i] IN
            /\ it.to = {}
            /\ ~it.relayed
            /\ it.applied =>
                  /\ net.router[it.hash].relayed
                  /\ it.persisted <=> it.disp = "accepted"
                  /\ it.published <=> it.disp \in {"accepted", "untrusted"}

\* An accepted manifest of a history message, delivered while another peer
\* is active.
C21_Witness ==
    /\ net.call.kind = "manifests"
    /\ net.call.history
    /\ net.call.active \ {net.call.from} # {}
    /\ \E i \in 1..Len(net.call.items) :
         /\ net.call.items[i].applied
         /\ net.call.items[i].persisted
         /\ net.router[net.call.items[i].hash].relayed

\* C22: selectPeers accepts at most limit peers: for every limit, 0
\* included, the number of peers it newly inserts, which it returns, does not
\* exceed limit; peers already in the set are not counted.
C22_SelectAtMostLimit ==
    net.call.kind = "select" =>
        LET c == net.call.sel IN
        /\ c.accepted = Cardinality(c.set \ c.before)
        /\ c.accepted = Len(c.inserted)
        /\ c.accepted <= c.limit

\* The position of peer p in sequence q, 0 when it is not there.
PosIn(q, p) ==
    IF \E i \in 1..Len(q) : q[i] = p
    THEN CHOOSE i \in 1..Len(q) : q[i] = p
    ELSE 0

\* No peer is inserted while a peer that could have been inserted, of
\* strictly higher score, is left out.
SelectDescending(c) ==
    \A p \in c.set \ c.before :
        \A q \in (DOMAIN c.score) \ c.set : c.score[q] <= c.score[p]

\* Of two peers of equal score that could both be inserted, the one visited
\* first by for_each is inserted first.
SelectTiesInOrder(c) ==
    \A p, q \in (DOMAIN c.score) \ c.before :
        (/\ c.score[p] = c.score[q]
         /\ PosIn(c.order, p) < PosIn(c.order, q)
         /\ PosIn(c.inserted, q) > 0)
        => /\ PosIn(c.inserted, p) > 0
           /\ PosIn(c.inserted, p) < PosIn(c.inserted, q)

\* C23: selectPeers considers the active peers in descending score order,
\* ties broken by the order of enumeration: no peer is inserted while an
\* insertable peer of strictly higher score is left out, and among equal
\* scores the one enumerated first is inserted first.
C23_SelectOrder ==
    net.call.kind = "select" =>
        /\ SelectDescending(net.call.sel)
        /\ SelectTiesInOrder(net.call.sel)

\* The asynchronous steps of a Connect Attempt.
AsyncSteps == {"connect", "handshake", "write", "read", "shutdown"}

\* C24: every asynchronous step of a Connect Attempt (connect, handshake,
\* each write, each read, shutdown) has the 15-second watchdog armed while it
\* is outstanding on an open socket, and the expiry of the watchdog closes
\* the attempt.
C24_WatchdogArmed ==
    /\ \A id \in DOMAIN cas :
          (cas[id].open /\ cas[id].phase \in AsyncSteps) => cas[id].armed
    /\ (last.ca.handler = "onTimer" /\ last.ca.id \in DOMAIN cas)
          => ~cas[last.ca.id].open

\* The slots closed by a step.
ClosedByStep ==
    {i \in 1..Len(slots) : slots[i].state # "closed" /\ slots'[i].state = "closed"}

\* C25: a Connect Attempt that ends without handing off to a Peer Session
\* calls on_closed on its slot exactly once, in its destructor, and leaves
\* list_; an attempt that hands off passes its slot to the Peer Session and
\* never calls on_closed on it.
C25_AttemptReleasesSlot ==
    [][\A id \in DOMAIN cas :
         LET c == cas[id] IN
         /\ c.handedTo = 0
               => /\ c.slot # NoSlot
                  /\ slots[c.slot].state # "closed"
                  /\ <<"ca", id>> \in list_
                  /\ id \in DOMAIN cas' => c.slot \notin ClosedByStep
                  /\ id \notin DOMAIN cas'
                        => (ClosedByStep = {c.slot} /\ <<"ca", id>> \notin list_')
         /\ c.handedTo # 0
               => /\ c.slot = NoSlot
                  /\ id \notin DOMAIN cas'
                        => (ClosedByStep = {} /\ <<"ca", id>> \notin list_')
         /\ (id \in DOMAIN cas' /\ c.handedTo = 0 /\ cas'[id].handedTo # 0)
               => /\ peers'[cas'[id].handedTo].slot = c.slot
                  /\ slots'[c.slot].state = "active"]_vars

\* An attempt refused by activate has been destroyed: its slot is closed and
\* it has left list_.
C25_Witness ==
    /\ last.ca.handler = "onRead"
    /\ last.ca.out.calls = {"activate"}
    /\ last.ca.id \notin DOMAIN cas
    /\ slots[last.ca.out.c.slot].state = "closed"
    /\ <<"ca", last.ca.id>> \notin list_

\* The entries of peer-ips that are strings and parse as endpoints.
GoodEntry(v) == v.isString /\ v.text \in Endpoints

\* C26: a 503 response whose body parses as a JSON object with an array
\* peer-ips has onRedirects called exactly once, with the remote endpoint and
\* the entries that are strings parsing as endpoints, and the attempt closes;
\* for any other status or body, and in every other handler, onRedirects is
\* not called; a 503 never leads to a Peer Session.
C26_Redirects ==
    LET a == last.ca
        b == a.resp.body
        good == /\ a.resp.status = 503
                /\ b.valid /\ b.object /\ b.member /\ b.array
        want == SelectSeq(b.entries, GoodEntry)
    IN a.handler # "none" =>
         /\ good => /\ Len(a.out.redirects) = 1
                    /\ a.out.redirects[1].remote = a.out.c.remote
                    /\ a.out.redirects[1].eps
                         = [i \in 1..Len(want) |-> want[i].text]
                    /\ ~a.out.c.open
                    /\ a.out.op = "none"
         /\ ~good => a.out.redirects = <<>>
         /\ a.resp.status = 503 => ~a.out.peer

\* A 503 whose peer-ips holds an endpoint and a string that is none: one
\* onRedirects call with the one endpoint.
C26_Witness ==
    /\ last.ca.handler = "onRead"
    /\ last.ca.resp.status = 503
    /\ Len(last.ca.resp.body.entries) = 2
    /\ Len(last.ca.out.redirects) = 1
    /\ Len(last.ca.out.redirects[1].eps) = 1

\* C27: on a successful outbound handshake the bytes the attempt has read
\* from the socket beyond the HTTP response are the initial buffer contents of
\* the new Peer Session.
C27_ReadBytesHandedOver ==
    (last.ca.handler = "onRead" /\ last.ca.out.peer)
        => last.ca.out.handed = last.ca.resp.extra

\* A handler call that was given operation_aborted or found the socket
\* closed starts no operation and calls none of onConnected, activate,
\* add_active.
AbortedIsTerminal(a) ==
    (a.ec = "aborted" \/ ~a.open)
        => (a.out.op = "none" /\ a.out.calls = {} /\ ~a.out.peer)

\* An end of file given to onRead on an open socket.
ReadEof(a) == a.handler = "onRead" /\ a.ec = "eof" /\ a.open

\* C28 as stated: a handler given operation_aborted, or run after the socket
\* was closed, starts no operation and makes no call; any other error given
\* to a handler closes the socket.
C28_ErrorsAreTerminal ==
    last.ca.handler # "none" =>
        /\ AbortedIsTerminal(last.ca)
        /\ last.ca.ec \notin {"ok", "aborted"} => ~last.ca.out.c.open

\* C28, amended: as stated, except that an end of file given to onRead on an
\* open socket starts the TLS shutdown under the watchdog and makes no call;
\* the completion of the shutdown closes the socket whatever its result.
C28_ErrorsTerminalButEof ==
    last.ca.handler # "none" =>
        /\ AbortedIsTerminal(last.ca)
        /\ (last.ca.ec \notin {"ok", "aborted"} /\ ~ReadEof(last.ca))
              => (~last.ca.out.c.open /\ last.ca.out.op = "none")
        /\ ReadEof(last.ca)
              => /\ last.ca.out.op = "shutdown"
                 /\ last.ca.out.c.armed
                 /\ last.ca.out.calls = {}
        /\ last.ca.handler = "onShutdown"
              => (~last.ca.out.c.open /\ last.ca.out.op = "none")

\* The handshake of an attempt completes without error after stop() has
\* closed its socket.
C28_Witness ==
    /\ last.ca.handler = "onHandshake"
    /\ last.ca.ec = "ok"
    /\ ~last.ca.open
    /\ last.ca.id \in DOMAIN cas
    /\ cas[last.ca.id].stopCalled
    /\ cas[last.ca.id].phase = "idle"

\* C29: a timer tick that fires without error while the overlay is not
\* stopping runs once_per_second, sendEndpoints, then autoConnect, which
\* calls connect for each endpoint the PeerFinder returned, and rearms the
\* timer; a tick with an error or while stopping does none of these and the
\* timer never waits again.
C29_TimerTick ==
    LET t == last.tick IN
    t.ran =>
        IF t.ec = "ok" /\ ~t.stopping
        THEN /\ timer # "dead"
             /\ timer = "ticking"
                   => t.steps = <<"once_per_second", "sendEndpoints">>
             /\ timer # "ticking"
                   => /\ t.steps = <<"once_per_second", "sendEndpoints",
                                     "autoConnect">>
                      /\ t.connects = t.offered
                      /\ t.rearmed
        ELSE /\ t.steps = <<>>
             /\ t.connects = <<>>
             /\ ~t.rearmed
             /\ timer = "dead"

\* A tick has connected to the endpoint the PeerFinder gave and rearmed, and
\* the attempt it started is in list_.
C29_Witness ==
    /\ last.tick.ran
    /\ last.tick.rearmed
    /\ Len(last.tick.connects) = 1
    /\ timer = "waiting"
    /\ \E id \in DOMAIN cas :
         cas[id].remote = last.tick.connects[1] /\ <<"ca", id>> \in list_

\* C30: every result of onHandoff is one of three kinds: not ours (moved
\* false, no response), handled with an HTTP response (moved false, response
\* set), upgraded to peer (moved true, no response, a Peer Session created
\* to be registered); moved true never comes with a response, nor without the
\* connection having been taken by a Peer Session.
C30_HandoffKinds ==
    last.id # 0 =>
        LET took == ~last.returned IN
        /\ \/ ~last.moved /\ last.response = NoResponse /\ ~took
           \/ ~last.moved /\ last.response # NoResponse /\ ~took
           \/ last.moved /\ last.response = NoResponse /\ took
        /\ ~(last.moved /\ last.response # NoResponse)
        /\ last.moved => took

\* C31: in an outbound attempt onConnected is called on a slot that
\* new_outbound_slot gave and that is still in state connect, and activate on
\* a slot that onConnected has moved to connected; the upgrade request is
\* written only when onConnected returned true, and add_active makes the Peer
\* Session only when activate returned success; after a false or non-success
\* result the attempt is closed, starts nothing, makes no Peer Session and
\* calls onRedirects not at all.
C31_OutboundOrder ==
    [][last'.ca # last.ca =>
         LET a == last'.ca
             o == a.out
             slot == cas[a.id].slot
             connected == /\ slots[slot].state = "connect"
                          /\ slots'[slot].state = "connected"
             activated == /\ slots[slot].state = "connected"
                          /\ slots'[slot].state = "active"
             ended == /\ ~o.peer
                      /\ a.id \notin DOMAIN peers'
                      /\ o.redirects = <<>>
                      /\ o.op = "none"
                      /\ ~cas'[a.id].open
         IN /\ "onConnected" \in o.calls
                  => (a.handler = "onHandshake" /\ slots[slot].state = "connect")
            /\ "activate" \in o.calls
                  => (a.handler = "onRead" /\ slots[slot].state = "connected")
            /\ (a.handler = "onHandshake" /\ o.op = "write")
                  => ("onConnected" \in o.calls /\ connected)
            /\ (o.peer \/ "add_active" \in o.calls)
                  => ("activate" \in o.calls /\ activated /\ a.id \in DOMAIN peers')
            /\ ("onConnected" \in o.calls /\ ~connected) => ended
            /\ ("activate" \in o.calls /\ ~activated) => ended]_vars

\* An attempt has gone through new_outbound_slot, onConnected and activate
\* and has become a Peer Session on its slot, after an earlier attempt was
\* ended and its slot closed.
C31_Witness ==
    /\ last.ca.handler = "onRead"
    /\ last.ca.out.calls = {"activate", "add_active"}
    /\ last.ca.out.peer
    /\ last.ca.id \in DOMAIN peers
    /\ slots[peers[last.ca.id].slot].state = "active"
    /\ ~peers[last.ca.id].inbound
    /\ \E i \in 1..Len(slots) : slots[i].state = "closed"

\* The assertions on the emplace into ids_ and m_peers.
EmplaceAsserts ==
    {"add_active m_peers.emplace", "add_active ids_.emplace",
     "activate ids_.emplace"}

\* C32: next_id_ never decreases; every onHandoff call that makes a Peer
\* Session and every connect that makes a Connect Attempt gives it the value
\* of next_id_ and increments it, so an id is held by one Connect Attempt or
\* one Peer Session only, or by a Peer Session and the attempt it came from;
\* no two sessions are registered in ids_ under one id and the emplace
\* assertions of add_active and activate(peer) hold.
C32_ShortIdsUnique ==
    [][/\ next_id_' \in {next_id_, next_id_ + 1}
       /\ \A id \in DOMAIN cas' \ DOMAIN cas :
             id = next_id_ /\ next_id_' = next_id_ + 1 /\ id \notin DOMAIN peers
       /\ \A id \in DOMAIN peers' \ DOMAIN peers :
             \/ id = next_id_ /\ next_id_' = next_id_ + 1 /\ id \notin DOMAIN cas
             \/ id \in DOMAIN cas /\ cas[id].handedTo = 0 /\ cas'[id].handedTo = id
       /\ \A id \in (DOMAIN cas' \cup DOMAIN peers' \cup ids_') : id < next_id_'
       /\ \A id \in ids_' : id \in DOMAIN peers' /\ peers'[id].active
       /\ asserts' \cap EmplaceAsserts = {}]_vars

\* An inbound session and an outbound one, made by a handoff and by a connect,
\* are registered in ids_ under different ids.
C32_Witness ==
    \E a \in ids_, b \in ids_ :
        /\ a # b
        /\ peers[a].inbound
        /\ ~peers[b].inbound
        /\ b \in DOMAIN cas
        /\ asserts \cap EmplaceAsserts = {}

\* C33: the overlay signals stopped() at most once over its lifetime, in
\* every interleaving of stop(), removals of children, onChildrenStopped and
\* late onHandoff and connect calls.
C33_StoppedOnce == stoppedCount <= 1

\* C34: connect is never executed after stop() has released the io-work
\* guard, whether stop() ran on the strand or in the destructor: the
\* assertion assert(work_) at the start of connect holds, and no Connect
\* Attempt is created after stop().
C34_NoConnectAfterStop == "connect work_" \notin asserts

\* C35: redirect(slot) is consulted only on a slot that has not been closed:
\* when activate fails in onHandoff the redirect list is built before
\* on_closed(slot) is called, and on the Connect-As path the slot is still
\* open when the list is built.
C35_RedirectOnOpenSlot == last.redirectOn # "closed"

\* A relay call whose message carries a hop count of maxTTL or more.
TTLDropped(c) == c.kind = "relay" /\ c.m.has_hops /\ c.m.hops >= maxTTL

\* C36: a relay call dropped by the TTL check leaves the HashRouter as it
\* was (the relayed flag is not set, no set is swapped) and sends nothing; a
\* copy of the same uid relayed next with a hop count below maxTTL, the uid
\* not having been relayed before, fans out to the active peers outside the
\* skip set.
C36_TTLDropKeepsRouter ==
    [][/\ (/\ TTLDropped(net'.call)
           /\ \/ net'.call # net.call
              \/ net'.router[net'.call.uid].relayed
                    # net.router[net'.call.uid].relayed)
          => /\ net'.router = net.router
             /\ ~net'.call.swapped
             /\ net'.sent = net.sent
       /\ (/\ TTLDropped(net.call)
           /\ net'.call.kind = "relay"
           /\ net'.call # net.call
           /\ net'.call.uid = net.call.uid
           /\ ~TTLDropped(net'.call)
           /\ ~net.router[net.call.uid].relayed)
          => /\ net'.call.ok
             /\ net'.call.to = RelayTargets(net'.call)
             /\ net'.router[net.call.uid].relayed]_vars

\* A relay dropped for its hop count: a peer had seen the content, the
\* content has not been relayed, and an active peer could be sent it.
C36_Witness ==
    /\ TTLDropped(net.call)
    /\ net.router[net.call.uid].peers # {}
    /\ ~net.router[net.call.uid].relayed
    /\ \E p \in ids_ \ net.router[net.call.uid].peers : net.aware[p]

\* C37: send delivers a message that the caller gave without a hop count to
\* every active peer, hop-aware or not, whatever the expire setting.
C37_SendReachesAll ==
    (net.call.kind = "send" /\ ~net.call.m.has_hops)
    => net.call.to = net.call.active

\* C38: an accepted manifest is never re-announced to the peer it came from:
\* the sender is in the skip set that swapSet returned for the manifest, and
\* the re-announcement goes to no peer of that set.
C38_ManifestNotEchoed ==
    net.call.kind = "manifests" =>
        \A i \in 1..Len(net.call.items) :
            LET it == net.call.items[i] IN
            /\ net.call.from \notin it.to
            /\ it.relayed => /\ net.call.from \in it.skip
                             /\ it.to \cap it.skip = {}

\* A message of two accepted manifests, both re-announced to another active
\* peer and not to the sender.
C38_Witness ==
    /\ net.call.kind = "manifests"
    /\ Len(net.call.items) = 2
    /\ net.call.from \in net.call.active
    /\ \A i \in 1..2 : /\ net.call.items[i].relayed
                       /\ net.call.items[i].to # {}
                       /\ net.call.from \notin net.call.items[i].to

\* What a write that ends without error has given to the stream: headers and
\* body first, the rest of the body, then the final chunk if chunked.
WrittenInFull(d) ==
    d.written = <<"headers">> \o [i \in 1..d.pieces |-> "body"]
                  \o (IF d.chunked THEN <<"final">> ELSE <<>>)

\* C39: write_op calls its completion handler exactly once per operation: not
\* while a write, a posted call or a resume is outstanding, never a second
\* time, and once nothing is outstanding it has been called; it is called
\* with an error, or after headers, body and for a chunked body the final
\* chunk have been written in that order, then with eof when the message
\* asks for the connection to be closed and with no error otherwise.
C39_WriteHandlerOnce ==
    LET d == net.wop IN
    d.started =>
        /\ Len(d.calls) <= 1
        /\ d.pending # "none" => d.calls = <<>>
        /\ d.pending = "none" => Len(d.calls) = 1
        /\ d.calls # <<>> =>
             \/ d.calls[1] = "error"
             \/ /\ d.state = 99
                /\ WrittenInFull(d)
                /\ d.calls[1] = IF d.close THEN "eof" ELSE "ok"

\* A chunked message that asks for close has been written in three writes,
\* the body writer having suspended once, and the handler was given eof.
C39_Witness ==
    /\ net.wop.started
    /\ net.wop.chunked
    /\ net.wop.close
    /\ net.wop.pieces = 2
    /\ net.wop.susp
    /\ net.wop.calls = <<"eof">>
    /\ net.wop.written = <<"headers", "body", "body", "final">>

\* C40: a parked operation is invoked at most once, and never through a
\* holder that holds none; an engaged invokable holds an operation that has
\* not been invoked; the operation that maybe_invoke runs may park a new one
\* or take over another invokable without the assertions of emplace and of
\* move-assignment failing; maybe_invoke on an invokable that is not engaged
\* does nothing.
C40_InvokedAtMostOnce ==
    LET v == net.inv IN
    /\ \A k \in 1..MaxParked : v.runs[k] <= 1
    /\ v.runs[0] = 0
    /\ v.asserts = {}
    /\ \A i \in {1, 2} :
          /\ v.b_[i] => (v.f[i] # 0 /\ v.runs[v.f[i]] = 0)
          /\ ~v.b_[i] =>
                \A what \in {"emplace", "assign", "nothing"} :
                    maybe_invoke(v, i, what, 3 - i) = v

\* An operation parked by a running operation has itself been invoked, and
\* the invokable it was parked in is engaged again.
C40_Witness ==
    /\ \E k \in net.inv.nested : net.inv.runs[k] = 1
    /\ \E i \in {1, 2} : net.inv.b_[i]
    /\ net.inv.asserts = {}

====
